---------------------------- MODULE Spec2Model ----------------------------
(***************************************************************************)
(* A model of the neo4j-schema-modeler editor: the schema store            *)
(* (src/src/hooks/useSchemaState.ts), the canvas/selection state           *)
(* (src/unnamed/part_000, the useCanvasState hook), the pointer and        *)
(* keyboard handlers of src/src/App.tsx as wired by the Canvas component   *)
(* (src/src/components/Canvas.tsx, src/unnamed/part_006), and the edge     *)
(* geometry of src/src/utils/index.ts.                                     *)
(*                                                                         *)
(* Eight specifications share the variables:                               *)
(*   Spec       the editor driven by pointer and keyboard events;          *)
(*   SpecStore  the exported store hook called directly with any ids;      *)
(*   SpecGeom   the pure geometry functions applied to bounded inputs;     *)
(*   SpecView   the viewport driven by zoom, wheel and pan events;         *)
(*   SpecDrag   nodes dragged and the canvas panned at some zoom;          *)
(*   SpecCoords the coordinate conversions applied one after the other;    *)
(*   SpecFile   export to a file and import from a file;                   *)
(*   SpecPanel  the placement of a node's property panel.                  *)
(***************************************************************************)
EXTENDS Integers, Sequences, FiniteSets, TLC

VARIABLES
    nodes,              \* useSchemaState: Node[]
    edges,              \* useSchemaState: Edge[]
    now,                \* the wall clock read by Date.now(), in milliseconds
    selectedNodeId,     \* useCanvasState
    selectedEdgeId,     \* useCanvasState
    hoveredNodeId,      \* useCanvasState
    draggedNodeId,      \* App
    isConnecting,       \* App
    connectionSourceId, \* App
    isPanning,          \* useCanvasState
    zoom,               \* useCanvasState, in hundredths
    panOffset,          \* useCanvasState: <<x, y>>
    startPanRef,        \* useCanvasState: startPanRef.current, <<x, y>>
    contextMenu,        \* App: ContextMenuState | null
    confirmDialog,      \* App: the confirm dialog and what its onConfirm does
    pointerOver,        \* environment: the node under the pointer, or NULL
    geo,                \* SpecGeom: the last computed geometry
    panFrom,            \* history: the pointer and pan offset at the last startPan
    download,           \* the text of the file handed to the browser by the last export
    importData,         \* the parsed file held by the import confirmation's onConfirm
    ev,                 \* history: the last event handled and its inputs
    pre                 \* history: the store as it was before the last event

vars == <<nodes, edges, now, selectedNodeId, selectedEdgeId, hoveredNodeId,
          draggedNodeId, isConnecting, connectionSourceId, isPanning,
          zoom, panOffset, startPanRef, contextMenu, confirmDialog,
          pointerOver, geo, panFrom, download, importData, ev, pre>>

storeVars == <<nodes, edges>>
uiVars == <<selectedNodeId, selectedEdgeId, hoveredNodeId, draggedNodeId,
            isConnecting, connectionSourceId, isPanning, contextMenu,
            confirmDialog, pointerOver>>
viewVars == <<zoom, panOffset, startPanRef>>
fileVars == <<download, importData>>

-----------------------------------------------------------------------------
(* Bounds of the model.                                                    *)

MaxClock == 2
MaxNodes == 2
MaxEdges == 2
\* duplicateNode is applied to labels of at most MaxCopies parts, so that
\* labels ("NewNode_copy_copy...") and clone positions stay bounded.
MaxCopies == 1
\* SpecGeom: the longest edge list the geometry functions are applied to.
MaxGeomEdges == 3
\* SpecView: the pan offset is kept within MaxPan pixels of the origin.
MaxPan == 40
\* SpecFile: the coordinates a file is read with lie within MaxCoord of 0.
MaxCoord == 200
\* SpecPanel: the number of nodes around the one whose panel is placed.
MaxPanelNeighbours == 4

-----------------------------------------------------------------------------
(* Values.                                                                 *)

\* JavaScript null (and undefined, where the code treats them alike).
NULL == "null"

\* What Array.prototype.find returns when nothing matches.
Undefined == [undefined |-> TRUE]

\* An absent Partial<...> argument: the function with no fields.
NoData == [k \in {} |-> NULL]

\* data?.field || dflt
Opt(data, field, dflt) == IF field \in DOMAIN data THEN data[field] ELSE dflt

\* { ...base, ...partial }
Merge(base, partial) ==
    [k \in (DOMAIN base) \cup (DOMAIN partial) |->
        IF k \in DOMAIN partial THEN partial[k] ELSE base[k]]

DEFAULT_NODE_COLORS ==
    <<"#FF6B6B", "#4ECDC4", "#45B7D1", "#FFA07A", "#98D8C8", "#F7DC6F",
      "#BB8FCE", "#85C1E2", "#F8B500", "#2ECC71", "#E74C3C", "#9B59B6">>

\* Date.now().toString()
DateNowToString(t) == ToString(t)

\* The canvas position the toolbar's "add node" computes (the viewport centre).
ViewCentre == <<0, 0>>

\* Ids a caller may pass: every id the clock can produce, present or not.
IdPool == {DateNowToString(t) : t \in 1..MaxClock}

\* Arguments the store's callers pass in SpecStore.
StorePositions == {<<30, 40>>}
NodePartials == {[definition |-> "doc"]}
EdgePartials == {[relationshipType |-> "OWNS"]}

-----------------------------------------------------------------------------
(* The schema store: useSchemaState.  Each operator is the state updater   *)
(* the hook passes to setNodes / setEdges.                                 *)

NodeIds(ns) == {ns[i].id : i \in 1..Len(ns)}
EdgeIds(es) == {es[i].id : i \in 1..Len(es)}

\* nodes.find((n) => n.id === id): the first match, or Undefined
getNodeById(ns, id) ==
    IF \E i \in 1..Len(ns) : ns[i].id = id
    THEN ns[CHOOSE i \in 1..Len(ns) :
                ns[i].id = id /\ \A j \in 1..(i - 1) : ns[j].id # id]
    ELSE Undefined

getEdgeById(es, id) ==
    IF \E i \in 1..Len(es) : es[i].id = id
    THEN es[CHOOSE i \in 1..Len(es) :
                es[i].id = id /\ \A j \in 1..(i - 1) : es[j].id # id]
    ELSE Undefined

\* The node record addNode builds; count is the closure's nodes.length.
newNode(count, position, data, t) ==
    [id |-> DateNowToString(t),
     x |-> position[1],
     y |-> position[2],
     data |-> [label |-> Opt(data, "label", <<"NewNode">>),
               properties |-> Opt(data, "properties", <<>>),
               color |-> Opt(data, "color",
                             DEFAULT_NODE_COLORS[(count % Len(DEFAULT_NODE_COLORS)) + 1]),
               definition |-> Opt(data, "definition", ""),
               propertyPanelPosition |-> Opt(data, "propertyPanelPosition", "auto")]]

addNode(prev, position, data, t) ==
    Append(prev, newNode(Len(prev), position, data, t))

updateNodeData(prev, id, data) ==
    [i \in 1..Len(prev) |->
        IF prev[i].id = id
        THEN [prev[i] EXCEPT !.data = Merge(prev[i].data, data)]
        ELSE prev[i]]

\* Moves every node, whatever the id.
updateNodePositionAll(prev, id, x, y) ==
    [i \in 1..Len(prev) |-> [prev[i] EXCEPT !.x = x, !.y = y]]

updateNodePosition(prev, id, x, y) ==
    [i \in 1..Len(prev) |->
        IF prev[i].id = id THEN [prev[i] EXCEPT !.x = x, !.y = y] ELSE prev[i]]

\* deleteNode: the two updaters, for nodes and for edges.
deleteNodeNodes(prev, id) == SelectSeq(prev, LAMBDA n : n.id # id)

\* The cascade testing the source only.
deleteNodeEdgesSourceOnly(prev, id) ==
    SelectSeq(prev, LAMBDA e : e.source # id)

deleteNodeEdges(prev, id) ==
    SelectSeq(prev, LAMBDA e : e.source # id /\ e.target # id)

\* The clone duplicateNode builds from the node it found.
cloneNode(node, t) ==
    [id |-> DateNowToString(t),
     x |-> node.x + 120,
     y |-> node.y + 60,
     data |-> [node.data EXCEPT !.label = Append(node.data.label, "_copy")]]

duplicateNode(prev, id, t) ==
    IF getNodeById(prev, id) # Undefined
    THEN Append(prev, cloneNode(getNodeById(prev, id), t))
    ELSE prev

\* An edge whose default relationship type does not look at the ends.
newEdgeRelatesTo(sourceId, targetId, data, t) ==
    [id |-> DateNowToString(t),
     source |-> sourceId,
     target |-> targetId,
     data |-> [relationshipType |-> Opt(data, "relationshipType", "RELATES_TO"),
               properties |-> Opt(data, "properties", <<>>),
               color |-> Opt(data, "color", "#6b7280"),
               labelStyle |-> Opt(data, "labelStyle", "badge")]]

newEdge(sourceId, targetId, data, t) ==
    [id |-> DateNowToString(t),
     source |-> sourceId,
     target |-> targetId,
     data |-> [relationshipType |->
                   Opt(data, "relationshipType",
                       IF sourceId = targetId THEN "SELF_REF" ELSE "RELATES_TO"),
               properties |-> Opt(data, "properties", <<>>),
               color |-> Opt(data, "color", "#6b7280"),
               labelStyle |-> Opt(data, "labelStyle", "badge")]]

addEdge(prev, sourceId, targetId, data, t) ==
    Append(prev, newEdge(sourceId, targetId, data, t))

updateEdgeData(prev, id, data) ==
    [i \in 1..Len(prev) |->
        IF prev[i].id = id
        THEN [prev[i] EXCEPT !.data = Merge(prev[i].data, data)]
        ELSE prev[i]]

\* The filter keeping every edge.
deleteEdgeKeepAll(prev, id) == SelectSeq(prev, LAMBDA e : TRUE)

deleteEdge(prev, id) == SelectSeq(prev, LAMBDA e : e.id # id)

\* The source overwritten by the target, the target kept.
reverseEdgeSourceOnly(prev, id) ==
    [i \in 1..Len(prev) |->
        IF prev[i].id = id
        THEN [prev[i] EXCEPT !.source = prev[i].target]
        ELSE prev[i]]

reverseEdge(prev, id) ==
    [i \in 1..Len(prev) |->
        IF prev[i].id = id
        THEN [prev[i] EXCEPT !.source = prev[i].target, !.target = prev[i].source]
        ELSE prev[i]]

\* loadSchema(newNodes, newEdges): setNodes(newNodes); setEdges(newEdges).
loadSchemaNodes(newNodes, newEdges) == newNodes
loadSchemaEdges(newNodes, newEdges) == newEdges

-----------------------------------------------------------------------------
(* The viewport: src/unnamed/part_000 (useCanvasState).  zoom is held in   *)
(* hundredths (100 is zoom 1) and a product is rounded down to the         *)
(* hundredth, where  the code rounds it to the nearest double; pan offsets *)
(* and pointer positions are whole pixels.                                 *)

ZOOM_MIN == 20
ZOOM_MAX == 300

Min(a, b) == IF a <= b THEN a ELSE b
Max(a, b) == IF a >= b THEN a ELSE b

\* prev * 1.2 without the Math.min.
zoomInUnclamped(prev) == (prev * 12) \div 10

\* setZoom((prev) => Math.min(ZOOM_MAX, prev * 1.2))
zoomIn(prev) == Min(ZOOM_MAX, (prev * 12) \div 10)

\* setZoom((prev) => Math.max(ZOOM_MIN, prev * 0.8))
zoomOut(prev) == Max(ZOOM_MIN, (prev * 8) \div 10)

\* setPanOffset((prev) => ({ x: prev.x - delta, y: prev.y }))
\* Pans in the direction of the wheel delta.
panHorizontalForward(prev, delta) == <<prev[1] + delta, prev[2]>>

panHorizontal(prev, delta) == <<prev[1] - delta, prev[2]>>

\* handleWheel: shift + wheel pans horizontally, the wheel alone zooms.
handleWheel(deltaY, shiftKey) ==
    IF shiftKey
    THEN /\ panOffset' = panHorizontal(panOffset, deltaY)
         /\ zoom' = zoom
    ELSE /\ zoom' = Max(ZOOM_MIN,
                        Min(ZOOM_MAX, (zoom * (IF deltaY > 0 THEN 9 ELSE 11)) \div 10))
         /\ panOffset' = panOffset

resetView ==
    /\ panOffset' = <<0, 0>>
    /\ zoom' = 100

\* startPan: the anchor is the pointer minus the current pan offset.
startPan(client) ==
    /\ isPanning' = TRUE
    /\ startPanRef' = <<client[1] - panOffset[1], client[2] - panOffset[2]>>

\* updatePan adding the pointer to the previous offset.
updatePanAccumulating(prev, client) ==
    IF isPanning
    THEN <<prev[1] + client[1] - startPanRef[1], prev[2] + client[2] - startPanRef[2]>>
    ELSE prev

\* updatePan: while panning, the offset is the pointer minus the anchor.
updatePan(prev, client) ==
    IF isPanning
    THEN <<client[1] - startPanRef[1], client[2] - startPanRef[2]>>
    ELSE prev

\* canvasRef.current.getBoundingClientRect(): the canvas's origin in the
\* window.  The ref is attached while the canvas is mounted, which it is
\* whenever a handler runs, so the functions' "no rect" return is not taken.
Rects == {[left |-> 0, top |-> 0], [left |-> 20, top |-> 60]}

\* screenToCanvas, from a window position in hundredths of a pixel.
screenToCanvas(clientX, clientY, rect) ==
    [x |-> (clientX - 100 * rect.left - 100 * panOffset[1]) \div zoom,
     y |-> (clientY - 100 * rect.top - 100 * panOffset[2]) \div zoom]

\* canvasToScreen without the canvas's origin.
canvasToScreenNoRect(x, y, rect) ==
    [x |-> x * zoom + 100 * panOffset[1],
     y |-> y * zoom + 100 * panOffset[2]]

\* canvasToScreen, to a window position in hundredths of a pixel.
canvasToScreen(x, y, rect) ==
    [x |-> x * zoom + 100 * panOffset[1] + 100 * rect.left,
     y |-> y * zoom + 100 * panOffset[2] + 100 * rect.top]

-----------------------------------------------------------------------------
(* Export and import: JSON.stringify, JSON.parse, handleExportJSON and     *)
(* handleFileImport.  A JSON text is held as its syntax: a tagged tree in  *)
(* which a number is its decimal text and an object is the sequence of its *)
(* members, in the order they are written.                                 *)

JString(s) == [t |-> "string", v |-> s]
JNumber(digits) == [t |-> "number", v |-> digits]
JBoolean(b) == [t |-> "boolean", v |-> b]
JNull == [t |-> "null", v |-> "null"]
JArray(items) == [t |-> "array", v |-> items]
JObject(members) == [t |-> "object", v |-> members]
\* A text JSON.parse throws a SyntaxError on.
JGarbage == [t |-> "garbage", v |-> "{"]
\* What reading a missing property gives.
JUndefined == [t |-> "undefined", v |-> "undefined"]

\* The type of the value stored under each key of the exported objects
\* (NodeType, EdgeType, Neo4jNodeData, Neo4jEdgeData, PropertyType and the
\* object handleExportJSON builds).
FieldKind(key) ==
    CASE key \in {"x", "y"} -> "number"
      [] key \in {"required", "unique", "indexed"} -> "boolean"
      [] key \in {"nodes", "edges", "properties"} -> "array"
      [] key \in {"data", "metadata"} -> "object"
      [] OTHER -> "string"

\* The order the keys of the exported objects are created in.
KeyOrder ==
    <<"id", "x", "y", "source", "target", "data", "label", "relationshipType",
      "properties", "color", "definition", "propertyPanelPosition",
      "labelStyle", "name", "type", "required", "unique", "indexed",
      "nodes", "edges", "metadata", "version", "exportedAt">>

\* The numbers whose decimal text the model reads back.
JsonNumbers == -MaxCoord..MaxCoord

\* Reads a decimal text without its sign.
parseNumberUnsigned(digits) ==
    CHOOSE n \in 0..MaxCoord : digits \in {ToString(n), ToString(-n)}

\* The number a decimal text denotes.
parseNumber(digits) == CHOOSE n \in JsonNumbers : ToString(n) = digits

RECURSIVE stringify(_, _)
\* JSON.stringify of a value of the given type.
stringify(value, kind) ==
    CASE kind = "string" -> JString(value)
      [] kind = "number" -> JNumber(ToString(value))
      [] kind = "boolean" -> JBoolean(value)
      [] kind = "array" ->
            JArray([i \in 1..Len(value) |-> stringify(value[i], "object")])
      [] kind = "object" ->
            LET keys == SelectSeq(KeyOrder, LAMBDA k : k \in DOMAIN value)
            IN  JObject([i \in 1..Len(keys) |->
                            <<keys[i], stringify(value[keys[i]], FieldKind(keys[i]))>>])

\* The last member written under a key (JSON.parse keeps the last one).
LastMember(members, key) ==
    LET at == {i \in 1..Len(members) : members[i][1] = key}
    IN  members[CHOOSE i \in at : \A j \in at : j <= i][2]

RECURSIVE parse(_)
\* JSON.parse of a well-formed text.
parse(json) ==
    CASE json.t = "number" -> parseNumber(json.v)
      [] json.t = "null" -> NULL
      [] json.t = "array" -> [i \in 1..Len(json.v) |-> parse(json.v[i])]
      [] json.t = "object" ->
            [key \in {json.v[i][1] : i \in 1..Len(json.v)} |->
                parse(LastMember(json.v, key))]
      [] OTHER -> json.v

\* data.nodes, data.edges: a property of the parsed document, read on
\* whatever JSON.parse returned.
Member(json, key) ==
    IF json.t = "object" /\ \E i \in 1..Len(json.v) : json.v[i][1] = key
    THEN LastMember(json.v, key)
    ELSE JUndefined

\* JavaScript truthiness of a parsed value.
Truthy(json) ==
    CASE json.t \in {"undefined", "null"} -> FALSE
      [] json.t = "string" -> json.v # ""
      [] json.t = "number" -> json.v # "0"
      [] json.t = "boolean" -> json.v
      [] OTHER -> TRUE

IsArray(json) == json.t = "array"

\* No file has been exported yet.
NoFile == [t |-> "none", v |-> "none"]
\* No import is waiting for confirmation.
NoImport == [nodes |-> JUndefined, edges |-> JUndefined]

\* handleExportJSON: the text of the downloaded file.
handleExportJSON(ns, es, t) ==
    stringify([nodes |-> ns,
               edges |-> es,
               metadata |-> [version |-> "2.1",
                             exportedAt |-> ToString(t),
                             name |-> "Neo4j Schema"]],
              "object")

\* handleFileImport, reader.onload: the text is parsed; a document whose
\* nodes and edges are both truthy opens the "Import Schema" confirmation,
\* whose onConfirm holds the parsed data; anything else is answered by an
\* alert and changes nothing.  JSON.parse of null gives null, and reading
\* null.nodes throws inside the try block, as a SyntaxError does.
handleFileImport(text) ==
    IF /\ text.t \notin {"garbage", "null"}
       /\ Truthy(Member(text, "nodes"))
       /\ Truthy(Member(text, "edges"))
    THEN /\ confirmDialog' = [isOpen |-> TRUE, kind |-> "import", id |-> NULL]
         /\ importData' = [nodes |-> Member(text, "nodes"),
                           edges |-> Member(text, "edges")]
    ELSE UNCHANGED <<confirmDialog, importData>>

-----------------------------------------------------------------------------
(* History.                                                                *)

NoEvent == [op |-> "init", id |-> NULL, id2 |-> NULL]

Event(op, id, id2) == [op |-> op, id |-> id, id2 |-> id2]

Snapshot == [nodes |-> nodes, edges |-> edges]

Record(op, id, id2) == ev' = Event(op, id, id2) /\ pre' = Snapshot

-----------------------------------------------------------------------------
(* Initial state: App starts the store empty, nothing selected, no gesture.*)

\* confirmDialog: kind and id stand for the onConfirm closure it holds.
NoDialog == [isOpen |-> FALSE, kind |-> "none", id |-> NULL]

\* contextMenu: null, or {type, targetId}.
NoMenu == [type |-> "none", targetId |-> NULL]

\* Before the first startPan: startPanRef is {x: 0, y: 0}.
NoPan == [client |-> <<0, 0>>, offset |-> <<0, 0>>]

Init ==
    /\ nodes = <<>>
    /\ edges = <<>>
    /\ now = 1
    /\ selectedNodeId = NULL
    /\ selectedEdgeId = NULL
    /\ hoveredNodeId = NULL
    /\ draggedNodeId = NULL
    /\ isConnecting = FALSE
    /\ connectionSourceId = NULL
    /\ isPanning = FALSE
    /\ zoom = 100
    /\ panOffset = <<0, 0>>
    /\ startPanRef = <<0, 0>>
    /\ panFrom = NoPan
    /\ download = NoFile
    /\ importData = NoImport
    /\ contextMenu = NoMenu
    /\ confirmDialog = NoDialog
    /\ pointerOver = NULL
    /\ geo = [kind |-> "none", out |-> <<>>]
    /\ ev = NoEvent
    /\ pre = [nodes |-> <<>>, edges |-> <<>>]

\* The clock advances between events.
Tick ==
    /\ now < MaxClock
    /\ now' = now + 1
    /\ UNCHANGED <<storeVars, uiVars, geo, viewVars, panFrom, fileVars, ev, pre>>

-----------------------------------------------------------------------------
(* SpecStore: the store hook called directly, with any ids.                *)

StoreAddNode ==
    /\ Len(nodes) < MaxNodes
    /\ nodes' = addNode(nodes, <<0, 0>>, NoData, now)
    /\ Record("addNode", DateNowToString(now), NULL)
    /\ UNCHANGED <<edges, now, uiVars, geo, viewVars, panFrom, fileVars>>

StoreUpdateNodeData ==
    \E id \in IdPool, data \in NodePartials :
        /\ nodes' = updateNodeData(nodes, id, data)
        /\ Record("updateNodeData", id, NULL)
        /\ UNCHANGED <<edges, now, uiVars, geo, viewVars, panFrom, fileVars>>

StoreUpdateNodePosition ==
    \E id \in IdPool, position \in StorePositions :
        /\ nodes' = updateNodePosition(nodes, id, position[1], position[2])
        /\ Record("updateNodePosition", id, NULL)
        /\ UNCHANGED <<edges, now, uiVars, geo, viewVars, panFrom, fileVars>>

StoreDeleteNode ==
    \E id \in IdPool :
        /\ nodes' = deleteNodeNodes(nodes, id)
        /\ edges' = deleteNodeEdges(edges, id)
        /\ Record("deleteNode", id, NULL)
        /\ UNCHANGED <<now, uiVars, geo, viewVars, panFrom, fileVars>>

StoreDuplicateNode ==
    \E id \in IdPool :
        /\ Len(nodes) < MaxNodes
        /\ getNodeById(nodes, id) # Undefined
              => Len(getNodeById(nodes, id).data.label) <= MaxCopies
        /\ nodes' = duplicateNode(nodes, id, now)
        /\ Record("duplicateNode", id, NULL)
        /\ UNCHANGED <<edges, now, uiVars, geo, viewVars, panFrom, fileVars>>

StoreAddEdge ==
    \E sourceId \in IdPool, targetId \in IdPool, data \in {NoData} :
        /\ Len(edges) < MaxEdges
        /\ edges' = addEdge(edges, sourceId, targetId, data, now)
        /\ Record("addEdge", sourceId, targetId)
        /\ UNCHANGED <<nodes, now, uiVars, geo, viewVars, panFrom, fileVars>>

StoreUpdateEdgeData ==
    \E id \in IdPool, data \in EdgePartials :
        /\ edges' = updateEdgeData(edges, id, data)
        /\ Record("updateEdgeData", id, NULL)
        /\ UNCHANGED <<nodes, now, uiVars, geo, viewVars, panFrom, fileVars>>

StoreDeleteEdge ==
    \E id \in IdPool :
        /\ edges' = deleteEdge(edges, id)
        /\ Record("deleteEdge", id, NULL)
        /\ UNCHANGED <<nodes, now, uiVars, geo, viewVars, panFrom, fileVars>>

StoreReverseEdge ==
    \E id \in IdPool :
        /\ edges' = reverseEdge(edges, id)
        /\ Record("reverseEdge", id, NULL)
        /\ UNCHANGED <<nodes, now, uiVars, geo, viewVars, panFrom, fileVars>>

NextStore ==
    \/ Tick
    \/ StoreAddNode
    \/ StoreUpdateNodeData
    \/ StoreUpdateNodePosition
    \/ StoreDeleteNode
    \/ StoreDuplicateNode
    \/ StoreAddEdge
    \/ StoreUpdateEdgeData
    \/ StoreDeleteEdge
    \/ StoreReverseEdge

SpecStore == Init /\ [][NextStore]_vars


-----------------------------------------------------------------------------
(* Selection: useCanvasState.                                              *)

\* selectNode without its second setter.
selectNodeKeepEdge(nodeId) ==
    /\ selectedNodeId' = nodeId
    /\ UNCHANGED selectedEdgeId

selectNode(nodeId) ==
    /\ selectedNodeId' = nodeId
    /\ selectedEdgeId' = NULL

selectEdge(edgeId) ==
    /\ selectedEdgeId' = edgeId
    /\ selectedNodeId' = NULL

clearSelection ==
    /\ selectedNodeId' = NULL
    /\ selectedEdgeId' = NULL

-----------------------------------------------------------------------------
(* Spec: the editor driven by pointer and keyboard events.  One action per *)
(* DOM event; an event that bubbles runs every handler on its path against *)
(* the state of the same render, and the updaters apply in order.          *)

\* The confirm dialog's overlay covers the window: while it is open no
\* pointer press, release or entry reaches the canvas or the toolbar.
CanvasReachable == ~confirmDialog.isOpen

\* The source of the connection gesture in progress, or NULL.
Gesture == IF isConnecting THEN connectionSourceId ELSE NULL

\* The times a second Date.now() of the same event may read.
Later(t) == {u \in t..(t + 1) : u <= MaxClock}

\* Edges drawn by the canvas: both endpoints resolve (edgePathData).
Rendered(e) ==
    /\ getNodeById(nodes, e.source) # Undefined
    /\ getNodeById(nodes, e.target) # Undefined

\* handleAddNode: the toolbar button.
ToolbarAddNode ==
    /\ CanvasReachable
    /\ Len(nodes) < MaxNodes
    /\ nodes' = addNode(nodes, ViewCentre, NoData, now)
    /\ selectNode(DateNowToString(now))
    /\ Record("handleAddNode", DateNowToString(now), NULL)
    /\ UNCHANGED <<edges, now, hoveredNodeId, draggedNodeId, isConnecting,
                   connectionSourceId, isPanning, contextMenu, confirmDialog,
                   pointerOver, geo, viewVars, panFrom, fileVars>>

\* The pointer moves onto node n: the node it leaves (if any) runs its
\* onMouseLeave, then n runs onMouseEnter.
NodeMouseEnter(n) ==
    /\ CanvasReachable
    /\ n \in NodeIds(nodes)
    /\ pointerOver # n
    /\ hoveredNodeId' = n
    /\ pointerOver' = n
    /\ Record("nodeMouseEnter", n, NULL)
    /\ UNCHANGED <<storeVars, now, selectedNodeId, selectedEdgeId, draggedNodeId,
                   isConnecting, connectionSourceId, isPanning, contextMenu,
                   confirmDialog, geo, viewVars, panFrom, fileVars>>

\* onMouseLeave={() => !isConnecting && onNodeHover(null)}
nodeMouseLeaveHover == IF ~isConnecting THEN NULL ELSE hoveredNodeId

\* The pointer moves from a node onto the empty canvas.
NodeMouseLeave ==
    /\ pointerOver # NULL
    /\ hoveredNodeId' = nodeMouseLeaveHover
    /\ pointerOver' = NULL
    /\ Record("nodeMouseLeave", pointerOver, NULL)
    /\ UNCHANGED <<storeVars, now, selectedNodeId, selectedEdgeId, draggedNodeId,
                   isConnecting, connectionSourceId, isPanning, contextMenu,
                   confirmDialog, geo, viewVars, panFrom, fileVars>>

\* handleNodeMouseDown, primary button (it stops propagation).
NodeMouseDown(n) ==
    /\ CanvasReachable
    /\ pointerOver = n
    /\ n \in NodeIds(nodes)
    /\ selectNode(n)
    /\ draggedNodeId' = n
    /\ Record("handleNodeMouseDown", n, selectedEdgeId)
    /\ UNCHANGED <<storeVars, now, hoveredNodeId, isConnecting, connectionSourceId,
                   isPanning, contextMenu, confirmDialog, pointerOver, geo, viewVars, panFrom, fileVars>>

\* handleConnectionStart: a press on the handle of the hovered node.
\* handleConnectionStart without setConnectionSourceId.
handleConnectionStartNoSource(nodeId) ==
    /\ isConnecting' = TRUE
    /\ UNCHANGED connectionSourceId

handleConnectionStart(nodeId) ==
    /\ isConnecting' = TRUE
    /\ connectionSourceId' = nodeId

ConnectionStart(n) ==
    /\ CanvasReachable
    /\ pointerOver = n
    /\ hoveredNodeId = n
    /\ n \in NodeIds(nodes)
    /\ handleConnectionStart(n)
    /\ Record("handleConnectionStart", n, NULL)
    /\ UNCHANGED <<storeVars, now, selectedNodeId, selectedEdgeId, hoveredNodeId,
                   draggedNodeId, isPanning, contextMenu, confirmDialog,
                   pointerOver, geo, viewVars, panFrom, fileVars>>

\* handleNodeMouseUp's update of the edges.  Its other writes (isConnecting,
\* connectionSourceId, draggedNodeId) are repeated by handleCanvasMouseUp,
\* to which the release always bubbles.
handleNodeMouseUp(prev, nodeId, t) ==
    IF isConnecting /\ connectionSourceId # NULL
    THEN addEdge(prev, connectionSourceId, nodeId, NoData, t)
    ELSE prev

\* handleCanvasMouseUp, applied to the edges as updated so far in the batch.
handleCanvasMouseUp(prev, t) ==
    /\ edges' = IF isConnecting /\ connectionSourceId # NULL /\ hoveredNodeId # NULL
                THEN addEdge(prev, connectionSourceId, hoveredNodeId, NoData, t)
                ELSE prev
    /\ draggedNodeId' = NULL
    /\ isConnecting' = FALSE
    /\ connectionSourceId' = NULL
    /\ isPanning' = FALSE

\* A release over node n: the node's onMouseUp, then the canvas's.
NodeMouseUp(n) ==
    /\ CanvasReachable
    /\ pointerOver = n
    /\ n \in NodeIds(nodes)
    /\ \E t \in Later(now) :
          /\ handleCanvasMouseUp(handleNodeMouseUp(edges, n, now), t)
          /\ now' = t
    /\ Len(edges') <= MaxEdges
    /\ Record("nodeMouseUp", n, Gesture)
    /\ UNCHANGED <<nodes, selectedNodeId, selectedEdgeId, hoveredNodeId,
                   contextMenu, confirmDialog, pointerOver, geo, viewVars, panFrom, fileVars>>

\* A release over the empty canvas.
CanvasMouseUp ==
    /\ CanvasReachable
    /\ pointerOver = NULL
    /\ handleCanvasMouseUp(edges, now)
    /\ Len(edges') <= MaxEdges
    /\ Record("canvasMouseUp", NULL, Gesture)
    /\ UNCHANGED <<nodes, now, selectedNodeId, selectedEdgeId, hoveredNodeId,
                   contextMenu, confirmDialog, pointerOver, geo, viewVars, panFrom, fileVars>>

\* The pointer leaves the canvas (onMouseLeave={onCanvasMouseUp}); when it
\* leaves from a node, that node's onMouseLeave runs in the same batch.
CanvasMouseLeave ==
    /\ handleCanvasMouseUp(edges, now)
    /\ Len(edges') <= MaxEdges
    /\ hoveredNodeId' = IF pointerOver # NULL THEN nodeMouseLeaveHover
                        ELSE hoveredNodeId
    /\ pointerOver' = NULL
    /\ Record("canvasMouseLeave", pointerOver, Gesture)
    /\ UNCHANGED <<nodes, now, selectedNodeId, selectedEdgeId, contextMenu,
                   confirmDialog, geo, viewVars, panFrom, fileVars>>

\* A press that pans with any button but the secondary one.
CanvasMouseDownAnyButton(button, client) ==
    /\ CanvasReachable
    /\ pointerOver = NULL
    /\ IF button = 2
       THEN UNCHANGED <<contextMenu, selectedNodeId, selectedEdgeId, isPanning,
                        startPanRef, panFrom, fileVars>>
       ELSE /\ contextMenu' = NoMenu
            /\ clearSelection
            /\ startPan(client)
            /\ panFrom' = [client |-> client, offset |-> panOffset]
            /\ UNCHANGED fileVars
    /\ Record("handleCanvasMouseDown", ToString(button), NULL)
    /\ UNCHANGED <<storeVars, now, hoveredNodeId, draggedNodeId, isConnecting,
                   connectionSourceId, confirmDialog, pointerOver, geo, zoom,
                   panOffset>>

\* handleCanvasMouseDown on the empty canvas, by button (0, 1 or 2), with
\* the pointer at client.
CanvasMouseDown(button, client) ==
    /\ CanvasReachable
    /\ pointerOver = NULL
    /\ IF button = 2
       THEN UNCHANGED <<contextMenu, selectedNodeId, selectedEdgeId, isPanning,
                        startPanRef, panFrom, fileVars>>
       ELSE /\ contextMenu' = NoMenu
            /\ IF button = 0 /\ draggedNodeId = NULL
               THEN /\ clearSelection
                    /\ startPan(client)
                    /\ panFrom' = [client |-> client, offset |-> panOffset]
                    /\ UNCHANGED fileVars
               ELSE UNCHANGED <<selectedNodeId, selectedEdgeId, isPanning,
                                startPanRef, panFrom, fileVars>>
    /\ Record("handleCanvasMouseDown", ToString(button), NULL)
    /\ UNCHANGED <<storeVars, now, hoveredNodeId, draggedNodeId, isConnecting,
                   connectionSourceId, confirmDialog, pointerOver, geo, zoom,
                   panOffset>>

\* handleEdgeClick: a click on the hit area of a drawn edge.
EdgeClick(edgeId) ==
    /\ CanvasReachable
    /\ pointerOver = NULL
    /\ \E i \in 1..Len(edges) : edges[i].id = edgeId /\ Rendered(edges[i])
    /\ selectEdge(edgeId)
    /\ Record("handleEdgeClick", edgeId, selectedNodeId)
    /\ UNCHANGED <<storeVars, now, hoveredNodeId, draggedNodeId, isConnecting,
                   connectionSourceId, isPanning, contextMenu, confirmDialog,
                   pointerOver, geo, viewVars, panFrom, fileVars>>

\* handleNodeContextMenu
NodeContextMenu(n) ==
    /\ CanvasReachable
    /\ pointerOver = n
    /\ n \in NodeIds(nodes)
    /\ selectNode(n)
    /\ contextMenu' = [type |-> "node", targetId |-> n]
    /\ Record("handleNodeContextMenu", n, NULL)
    /\ UNCHANGED <<storeVars, now, hoveredNodeId, draggedNodeId, isConnecting,
                   connectionSourceId, isPanning, confirmDialog, pointerOver, geo, viewVars, panFrom, fileVars>>

\* handleEdgeContextMenu
EdgeContextMenu(edgeId) ==
    /\ CanvasReachable
    /\ pointerOver = NULL
    /\ \E i \in 1..Len(edges) : edges[i].id = edgeId /\ Rendered(edges[i])
    /\ selectEdge(edgeId)
    /\ contextMenu' = [type |-> "edge", targetId |-> edgeId]
    /\ Record("handleEdgeContextMenu", edgeId, NULL)
    /\ UNCHANGED <<storeVars, now, hoveredNodeId, draggedNodeId, isConnecting,
                   connectionSourceId, isPanning, confirmDialog, pointerOver, geo, viewVars, panFrom, fileVars>>

\* handleKeyDown's guard: the key's target is an input, a textarea or a
\* select element.  Targets are named by their kind of element.
inputGuardTextOnly(target) == target \in {"input", "textarea"}

inputGuard(target) == target \in {"input", "textarea", "select"}

\* handleKeyDown, the Delete / Backspace branch.
onDeleteKey ==
    /\ IF selectedNodeId # NULL
       THEN /\ confirmDialog' = [isOpen |-> TRUE, kind |-> "deleteNode",
                                 id |-> selectedNodeId]
            /\ UNCHANGED <<edges, selectedNodeId, selectedEdgeId>>
       ELSE IF selectedEdgeId # NULL
       THEN /\ edges' = deleteEdge(edges, selectedEdgeId)
            /\ clearSelection
            /\ UNCHANGED confirmDialog
       ELSE UNCHANGED <<edges, selectedNodeId, selectedEdgeId, confirmDialog>>
    /\ UNCHANGED <<nodes, now, hoveredNodeId, draggedNodeId, isConnecting,
                   connectionSourceId, isPanning, contextMenu, pointerOver, geo, viewVars, panFrom, fileVars>>

\* handleKeyDown, the Ctrl/Cmd+D branch.
onDuplicateKey ==
    /\ Len(nodes) < MaxNodes
    /\ getNodeById(nodes, selectedNodeId) # Undefined
          => Len(getNodeById(nodes, selectedNodeId).data.label) <= MaxCopies
    /\ IF selectedNodeId # NULL
       THEN /\ nodes' = duplicateNode(nodes, selectedNodeId, now)
            /\ IF getNodeById(nodes, selectedNodeId) # Undefined
               THEN selectNode(DateNowToString(now))
               ELSE UNCHANGED <<selectedNodeId, selectedEdgeId>>
       ELSE UNCHANGED <<nodes, selectedNodeId, selectedEdgeId>>
    /\ UNCHANGED <<edges, now, hoveredNodeId, draggedNodeId, isConnecting,
                   connectionSourceId, isPanning, contextMenu, confirmDialog,
                   pointerOver, geo, viewVars, panFrom, fileVars>>

\* handleKeyDown, the Escape branch.
onEscapeKey ==
    /\ clearSelection
    /\ contextMenu' = NoMenu
    /\ confirmDialog' = [confirmDialog EXCEPT !.isOpen = FALSE]
    /\ UNCHANGED <<storeVars, now, hoveredNodeId, draggedNodeId, isConnecting,
                   connectionSourceId, isPanning, pointerOver, geo, viewVars, panFrom, fileVars>>

\* handleKeyDown: a key of the shortcuts pressed with the focus in target.
handleKeyDown(key, target) ==
    IF inputGuard(target)
    THEN UNCHANGED <<storeVars, now, uiVars, geo, viewVars, panFrom, fileVars>>
    ELSE CASE key \in {"Delete", "Backspace"} -> onDeleteKey
           [] key = "Ctrl+D" -> onDuplicateKey
           [] key = "Escape" -> onEscapeKey

\* Delete or Backspace, focus outside the form fields.
KeyDelete ==
    /\ handleKeyDown("Delete", "body")
    /\ Record("keyDelete", selectedNodeId, selectedEdgeId)

\* Ctrl/Cmd+D, focus outside the form fields.
KeyDuplicate ==
    /\ handleKeyDown("Ctrl+D", "body")
    /\ Record("keyDuplicate", selectedNodeId, NULL)

\* Escape, focus outside the form fields.
KeyEscape ==
    /\ handleKeyDown("Escape", "body")
    /\ Record("keyEscape", NULL, NULL)

\* The keys of the shortcuts and the form fields of the properties panel.
ShortcutKeys == {"Delete", "Backspace", "Ctrl+D", "Escape"}
FieldTargets == {"input", "textarea", "select"}

\* A shortcut key pressed while the focus is in a form field.  Where the
\* guard holds the handler returns before it looks at the key, so one key
\* stands for all of them there.
KeyDownInField(target) ==
    /\ \E key \in (IF inputGuard(target) THEN {"Delete"} ELSE ShortcutKeys) :
          handleKeyDown(key, target)
    /\ Record("keyDownInField", NULL, NULL)

\* The confirm button: onConfirm(); onClose().
ConfirmDialogConfirm ==
    /\ confirmDialog.isOpen
    /\ CASE confirmDialog.kind = "deleteNode" ->
              /\ nodes' = deleteNodeNodes(nodes, confirmDialog.id)
              /\ edges' = deleteNodeEdges(edges, confirmDialog.id)
              /\ clearSelection
              /\ UNCHANGED <<zoom, panOffset>>
         [] confirmDialog.kind = "import" ->
              \* loadSchema(data.nodes, data.edges); resetView().  With
              \* anything but arrays stored, the next render throws
              \* (nodes.map is not a function): the model stops there.
              /\ IsArray(importData.nodes) /\ IsArray(importData.edges)
              /\ nodes' = loadSchemaNodes(parse(importData.nodes), parse(importData.edges))
              /\ edges' = loadSchemaEdges(parse(importData.nodes), parse(importData.edges))
              /\ resetView
              /\ UNCHANGED <<selectedNodeId, selectedEdgeId>>
         [] OTHER ->
              UNCHANGED <<nodes, edges, selectedNodeId, selectedEdgeId, zoom,
                          panOffset>>
    /\ confirmDialog' = [confirmDialog EXCEPT !.isOpen = FALSE]
    /\ Record("confirm", confirmDialog.id, confirmDialog.kind)
    /\ UNCHANGED <<now, hoveredNodeId, draggedNodeId, isConnecting,
                   connectionSourceId, isPanning, contextMenu, pointerOver, geo,
                   startPanRef, panFrom, fileVars>>

\* Cancel, the X button or a click on the overlay: onClose().
ConfirmDialogClose ==
    /\ confirmDialog.isOpen
    /\ confirmDialog' = [confirmDialog EXCEPT !.isOpen = FALSE]
    /\ Record("cancel", NULL, NULL)
    /\ UNCHANGED <<storeVars, now, selectedNodeId, selectedEdgeId, hoveredNodeId,
                   draggedNodeId, isConnecting, connectionSourceId, isPanning,
                   contextMenu, pointerOver, geo, viewVars, panFrom, fileVars>>

Next ==
    \/ Tick
    \/ ToolbarAddNode
    \/ \E n \in IdPool : NodeMouseEnter(n)
    \/ NodeMouseLeave
    \/ \E n \in IdPool : NodeMouseDown(n)
    \/ \E n \in IdPool : ConnectionStart(n)
    \/ \E n \in IdPool : NodeMouseUp(n)
    \/ CanvasMouseUp
    \/ CanvasMouseLeave
    \/ \E button \in 0..2 : CanvasMouseDown(button, <<0, 0>>)
    \/ \E e \in IdPool : EdgeClick(e)
    \/ \E n \in IdPool : NodeContextMenu(n)
    \/ \E e \in IdPool : EdgeContextMenu(e)
    \/ KeyDelete
    \/ KeyDuplicate
    \/ KeyEscape
    \/ \E target \in FieldTargets : KeyDownInField(target)
    \/ ConfirmDialogConfirm
    \/ ConfirmDialogClose

Spec == Init /\ [][Next]_vars

-----------------------------------------------------------------------------
(* SpecView: the viewport driven by the toolbar's zoom buttons, the wheel  *)
(* and panning drags on the empty canvas.                                  *)

\* Pointer positions (clientX, clientY) and wheel deltas (deltaY).
ClientPoints == {<<0, 0>>, <<30, 40>>}
WheelDeltas == {-30, 30}

InPanBounds(offset) ==
    /\ offset[1] \in (-MaxPan)..MaxPan
    /\ offset[2] \in (-MaxPan)..MaxPan

\* The toolbar's zoom-in button: onZoomIn={zoomIn}.
ToolbarZoomIn ==
    /\ CanvasReachable
    /\ zoom' = zoomIn(zoom)
    /\ ev' = Event("zoomIn", NULL, NULL)
    /\ UNCHANGED <<storeVars, now, uiVars, panOffset, startPanRef, geo, panFrom, fileVars, pre>>

\* The toolbar's zoom-out button: onZoomOut={zoomOut}.
ToolbarZoomOut ==
    /\ CanvasReachable
    /\ zoom' = zoomOut(zoom)
    /\ ev' = Event("zoomOut", NULL, NULL)
    /\ UNCHANGED <<storeVars, now, uiVars, panOffset, startPanRef, geo, panFrom, fileVars, pre>>

\* The toolbar's reset button: onResetView={resetView}.
ToolbarResetView ==
    /\ CanvasReachable
    /\ resetView
    /\ ev' = Event("resetView", NULL, NULL)
    /\ UNCHANGED <<storeVars, now, uiVars, startPanRef, geo, panFrom, fileVars, pre>>

\* handleCanvasWheel: handleWheel(e.deltaY, e.shiftKey).
CanvasWheel(deltaY, shiftKey) ==
    /\ CanvasReachable
    /\ handleWheel(deltaY, shiftKey)
    /\ InPanBounds(panOffset')
    /\ ev' = Event("wheel", NULL, NULL)
    /\ UNCHANGED <<storeVars, now, uiVars, startPanRef, geo, panFrom, fileVars, pre>>

\* handleCanvasMouseMove with the pointer at client: a dragged node follows
\* the pointer, otherwise a pan in progress is updated.
CanvasMouseMove(client, rect) ==
    /\ CanvasReachable
    /\ IF draggedNodeId # NULL
       THEN LET canvasPos == screenToCanvas(100 * client[1], 100 * client[2], rect)
            IN  /\ nodes' = updateNodePosition(nodes, draggedNodeId,
                                               canvasPos.x, canvasPos.y)
                /\ panOffset' = panOffset
       ELSE /\ panOffset' = updatePan(panOffset, client)
            /\ nodes' = nodes
    /\ InPanBounds(panOffset')
    /\ ev' = Event("canvasMouseMove", client, panOffset)
    /\ UNCHANGED <<edges, now, uiVars, zoom, startPanRef, geo, panFrom, fileVars, pre>>

NextView ==
    \/ ToolbarZoomIn
    \/ ToolbarZoomOut
    \/ ToolbarResetView
    \/ \E deltaY \in WheelDeltas, shiftKey \in BOOLEAN : CanvasWheel(deltaY, shiftKey)
    \/ \E button \in 0..2, client \in ClientPoints : CanvasMouseDown(button, client)
    \/ \E client \in ClientPoints, rect \in Rects : CanvasMouseMove(client, rect)
    \/ CanvasMouseUp

SpecView == Init /\ [][NextView]_vars



-----------------------------------------------------------------------------
(* SpecDrag: nodes are added, pressed, dragged and released, and the       *)
(* canvas is pressed and panned, at one of a few zoom levels.              *)

DragZooms == {100, 200}

InitDrag ==
    /\ nodes = <<>>
    /\ edges = <<>>
    /\ now = 1
    /\ selectedNodeId = NULL
    /\ selectedEdgeId = NULL
    /\ hoveredNodeId = NULL
    /\ draggedNodeId = NULL
    /\ isConnecting = FALSE
    /\ connectionSourceId = NULL
    /\ isPanning = FALSE
    /\ zoom \in DragZooms
    /\ panOffset = <<0, 0>>
    /\ startPanRef = <<0, 0>>
    /\ panFrom = NoPan
    /\ download = NoFile
    /\ importData = NoImport
    /\ contextMenu = NoMenu
    /\ confirmDialog = NoDialog
    /\ pointerOver = NULL
    /\ geo = [kind |-> "none", out |-> <<>>]
    /\ ev = NoEvent
    /\ pre = [nodes |-> <<>>, edges |-> <<>>]

NextDrag ==
    \/ Tick
    \/ ToolbarAddNode
    \/ \E n \in IdPool : NodeMouseEnter(n)
    \/ NodeMouseLeave
    \/ \E n \in IdPool : NodeMouseDown(n)
    \/ \E n \in IdPool : NodeMouseUp(n)
    \/ CanvasMouseUp
    \/ CanvasMouseLeave
    \/ \E button \in 0..2, client \in ClientPoints : CanvasMouseDown(button, client)
    \/ \E client \in ClientPoints, rect \in Rects : CanvasMouseMove(client, rect)

SpecDrag == InitDrag /\ [][NextDrag]_vars

-----------------------------------------------------------------------------
(* SpecCoords: the coordinate conversions of useCanvasState applied, one   *)
(* after the other, to a point of the canvas under any zoom and pan.       *)

\* Canvas coordinates and pan offsets the conversions are applied to.
CanvasCoords == {-50, 0, 75}
CoordPans == {<<0, 0>>, <<30, -40>>}

InitCoords ==
    /\ nodes = <<>>
    /\ edges = <<>>
    /\ now = 1
    /\ selectedNodeId = NULL
    /\ selectedEdgeId = NULL
    /\ hoveredNodeId = NULL
    /\ draggedNodeId = NULL
    /\ isConnecting = FALSE
    /\ connectionSourceId = NULL
    /\ isPanning = FALSE
    /\ zoom \in ZOOM_MIN..ZOOM_MAX
    /\ panOffset \in CoordPans
    /\ startPanRef = <<0, 0>>
    /\ panFrom = NoPan
    /\ download = NoFile
    /\ importData = NoImport
    /\ contextMenu = NoMenu
    /\ confirmDialog = NoDialog
    /\ pointerOver = NULL
    /\ geo = [kind |-> "none", out |-> <<>>]
    /\ ev = NoEvent
    /\ pre = [nodes |-> <<>>, edges |-> <<>>]

\* canvasToScreen(x, y) is computed.
CanvasToScreen(x, y, rect) ==
    /\ geo.kind = "none"
    /\ geo' = [kind |-> "screen",
               out |-> [rect |-> rect, canvas |-> [x |-> x, y |-> y],
                        screen |-> canvasToScreen(x, y, rect)]]
    /\ UNCHANGED <<storeVars, now, uiVars, viewVars, panFrom, fileVars, ev, pre>>

\* screenToCanvas is applied to the point canvasToScreen returned.
ScreenToCanvas ==
    /\ geo.kind = "screen"
    /\ geo' = [kind |-> "canvas",
               out |-> [rect |-> geo.out.rect, canvas |-> geo.out.canvas,
                        screen |-> geo.out.screen,
                        back |-> screenToCanvas(geo.out.screen.x, geo.out.screen.y,
                                                geo.out.rect)]]
    /\ UNCHANGED <<storeVars, now, uiVars, viewVars, panFrom, fileVars, ev, pre>>

NextCoords ==
    \/ \E x \in CanvasCoords, y \in CanvasCoords, rect \in Rects : CanvasToScreen(x, y, rect)
    \/ ScreenToCanvas

SpecCoords == InitCoords /\ [][NextCoords]_vars

-----------------------------------------------------------------------------
(* SpecFile: export and import.  The store starts with one of a few        *)
(* schemas, with some selection and some viewport; the user exports, picks *)
(* a file to import, and confirms or cancels.                              *)

\* A property list as the node details dialog stores it.
FileProperties == <<[name |-> "id", type |-> "string", required |-> TRUE]>>

FileNode(t, position, partial) == newNode(t - 1, position, partial, t)

\* Schemas the store may hold: empty; three nodes (one a duplicate, one at
\* negative coordinates and with a property list) and two edges, one a
\* self-edge; a single node; two nodes joined by one edge.
FileSchemas ==
    <<[nodes |-> <<>>, edges |-> <<>>],
      [nodes |-> <<FileNode(1, <<0, 0>>, NoData),
                   cloneNode(FileNode(1, <<0, 0>>, NoData), 2),
                   FileNode(3, <<-30, 40>>, [properties |-> FileProperties])>>,
       edges |-> <<newEdge("1", "2", NoData, 4),
                   newEdge("3", "3", [properties |-> FileProperties], 5)>>],
      [nodes |-> <<FileNode(1, <<30, 40>>, [definition |-> "doc"])>>,
       edges |-> <<>>],
      [nodes |-> <<FileNode(1, <<0, 0>>, NoData), FileNode(2, <<30, -40>>, NoData)>>,
       edges |-> <<newEdge("2", "1", [relationshipType |-> "OWNS"], 3)>>]>>

FileZooms == {100, 144}
FilePans == {<<0, 0>>, <<30, 40>>}

InitFile ==
    /\ \E i \in 1..Len(FileSchemas) :
          /\ nodes = FileSchemas[i].nodes
          /\ edges = FileSchemas[i].edges
    /\ now = 6
    /\ \/ selectedNodeId \in {NULL} \cup NodeIds(nodes) /\ selectedEdgeId = NULL
       \/ selectedNodeId = NULL /\ selectedEdgeId \in EdgeIds(edges)
    /\ hoveredNodeId = NULL
    /\ draggedNodeId = NULL
    /\ isConnecting = FALSE
    /\ connectionSourceId = NULL
    /\ isPanning = FALSE
    /\ zoom \in FileZooms
    /\ panOffset \in FilePans
    /\ startPanRef = <<0, 0>>
    /\ panFrom = NoPan
    /\ download = NoFile
    /\ importData = NoImport
    /\ contextMenu = NoMenu
    /\ confirmDialog = NoDialog
    /\ pointerOver = NULL
    /\ geo = [kind |-> "none", out |-> <<>>]
    /\ ev = NoEvent
    /\ pre = [nodes |-> <<>>, edges |-> <<>>]

\* Toolbar "Export JSON": handleExportJSON; the browser keeps the file.
ExportJSON ==
    /\ CanvasReachable
    /\ download' = handleExportJSON(nodes, edges, now)
    /\ Record("exportJSON", NULL, NULL)
    /\ UNCHANGED <<storeVars, now, uiVars, geo, viewVars, panFrom, importData>>

\* Files the user may pick besides the last download, by name.
FileNames ==
    {"other", "extraKeys", "noNodes", "noEdges", "emptyObject", "unparseable",
     "null", "scalars", "nodesObject", "nodesEmptyString", "nodesZero"}

\* A node written by hand, with a key the application does not know and
\* the id member written twice.
HandWrittenNode ==
    JObject(<<<<"id", JString("7")>>,
              <<"x", JNumber("12")>>,
              <<"y", JNumber("-5")>>,
              <<"data", JObject(<<<<"label", JString(<<"Person">>)>>,
                                  <<"properties", JArray(<<>>)>>,
                                  <<"color", JString("#FF6B6B")>>>>)>>,
              <<"id", JString("9")>>>>)

TextOfFile(name) ==
    CASE name = "other" ->
            handleExportJSON(FileSchemas[3].nodes, FileSchemas[3].edges, 1)
      [] name = "extraKeys" ->
            JObject(<<<<"edges", JArray(<<>>)>>,
                      <<"nodes", JArray(<<HandWrittenNode>>)>>>>)
      [] name = "noNodes" -> JObject(<<<<"edges", JArray(<<>>)>>>>)
      [] name = "noEdges" -> JObject(<<<<"nodes", JArray(<<>>)>>>>)
      [] name = "emptyObject" -> JObject(<<>>)
      [] name = "unparseable" -> JGarbage
      [] name = "null" -> JNull
      [] name = "scalars" ->
            JObject(<<<<"nodes", JNumber("1")>>, <<"edges", JBoolean(TRUE)>>>>)
      [] name = "nodesObject" ->
            JObject(<<<<"nodes", JObject(<<>>)>>, <<"edges", JArray(<<>>)>>>>)
      [] name = "nodesEmptyString" ->
            JObject(<<<<"nodes", JString("")>>, <<"edges", JArray(<<>>)>>>>)
      [] name = "nodesZero" ->
            JObject(<<<<"nodes", JNumber("0")>>, <<"edges", JArray(<<>>)>>>>)

\* The hidden file input's onChange with a file picked by name.
FileImport(name) ==
    /\ CanvasReachable
    /\ handleFileImport(TextOfFile(name))
    /\ Record("fileImport", name, NULL)
    /\ UNCHANGED <<storeVars, now, selectedNodeId, selectedEdgeId, hoveredNodeId,
                   draggedNodeId, isConnecting, connectionSourceId, isPanning,
                   contextMenu, pointerOver, geo, viewVars, panFrom, download>>

\* The same with the file the last export downloaded.
FileImportDownload ==
    /\ CanvasReachable
    /\ download # NoFile
    /\ handleFileImport(download)
    /\ Record("fileImport", "download", NULL)
    /\ UNCHANGED <<storeVars, now, selectedNodeId, selectedEdgeId, hoveredNodeId,
                   draggedNodeId, isConnecting, connectionSourceId, isPanning,
                   contextMenu, pointerOver, geo, viewVars, panFrom, download>>

NextFile ==
    \/ ExportJSON
    \/ \E name \in FileNames : FileImport(name)
    \/ FileImportDownload
    \/ ConfirmDialogConfirm
    \/ ConfirmDialogClose

SpecFile == InitFile /\ [][NextFile]_vars

-----------------------------------------------------------------------------
(* Edge geometry: src/src/utils/index.ts and the Canvas of                 *)
(* src/unnamed/part_006.  The code computes in floating point; the model   *)
(* computes the same expressions exactly, in fixed units: curve offsets in *)
(* twentieths, coordinates in tenths.  Node positions are taken from a     *)
(* 30 x 40 rectangle, whose pairwise distances (30, 40, 50) are integers,  *)
(* so that every quotient below is exact.                                  *)

NODE_RADIUS == 50

\* The filter matching one direction only.
relatedEdgesSameDirection(edge, allEdges) ==
    SelectSeq(allEdges, LAMBDA e :
        e.source = edge.source /\ e.target = edge.target)

\* allEdges.filter(...): the edges between the same two nodes, either way.
relatedEdges(edge, allEdges) ==
    SelectSeq(allEdges, LAMBDA e :
        \/ (e.source = edge.source /\ e.target = edge.target)
        \/ (e.source = edge.target /\ e.target = edge.source))

\* es.findIndex((e) => e.id === id), counted from 0; -1 when there is none.
findIndex(es, id) ==
    IF \E i \in 1..Len(es) : es[i].id = id
    THEN (CHOOSE i \in 1..Len(es) :
              es[i].id = id /\ \A j \in 1..(i - 1) : es[j].id # id) - 1
    ELSE -1

\* getEdgeCurveOffset, in twentieths:
\* (idx - (n - 1) / 2) * 0.8 = (2 * idx - (n - 1)) * 8 / 20.
getEdgeCurveOffset(edge, allEdges) ==
    LET related == relatedEdges(edge, allEdges)
        idx == findIndex(related, edge.id)
    IN  IF Len(related) <= 1 THEN 0
        ELSE (2 * idx - (Len(related) - 1)) * 8

\* Math.sqrt on the squares of the model's distances.
Sqrt(n) == CHOOSE r \in 0..n : r * r = n

\* calculateEdgePath (part_006): the start, control and end points of the
\* quadratic curve and the label anchor, in tenths; curveOffset in twentieths.
\* cos(angle) = dx / dist, sin(angle) = dy / dist;
\* curveAmount = curveOffset * 70, so 10 * curveAmount = 35 * (20 * curveOffset).
calculateEdgePath(sourceX, sourceY, targetX, targetY, curveOffset) ==
    LET dx == targetX - sourceX
        dy == targetY - sourceY
        dist == Sqrt(dx * dx + dy * dy)
    IN  IF dist = 0
        THEN [sx |-> 10 * sourceX, sy |-> 10 * sourceY,
              cx |-> 10 * sourceX, cy |-> 10 * sourceY,
              tx |-> 10 * targetX, ty |-> 10 * targetY,
              labelX |-> 10 * sourceX, labelY |-> 10 * sourceY,
              curved |-> FALSE]
        ELSE LET sx == 10 * sourceX + (10 * NODE_RADIUS * dx) \div dist
                 sy == 10 * sourceY + (10 * NODE_RADIUS * dy) \div dist
                 tx == 10 * targetX - (10 * NODE_RADIUS * dx) \div dist
                 ty == 10 * targetY - (10 * NODE_RADIUS * dy) \div dist
                 midX == (sx + tx) \div 2 + ((-dy) * 35 * curveOffset) \div dist
                 midY == (sy + ty) \div 2 + (dx * 35 * curveOffset) \div dist
             IN  [sx |-> sx, sy |-> sy, cx |-> midX, cy |-> midY,
                  tx |-> tx, ty |-> ty,
                  labelX |-> (sx + 2 * midX + tx) \div 4,
                  labelY |-> (sy + 2 * midY + ty) \div 4,
                  curved |-> TRUE]

SELF_LOOP_BASE_SIZE == 80
SELF_LOOP_INCREMENT == 45

\* getSelfLoopIndex: the position of a self-edge among the self-edges of its
\* node, counted from 0.
\* Counts the self-edges of every node together.
getSelfLoopIndexAnyNode(edge, allEdges) ==
    findIndex(SelectSeq(allEdges, LAMBDA e : e.source = e.target), edge.id)

getSelfLoopIndex(edge, allEdges) ==
    findIndex(SelectSeq(allEdges, LAMBDA e :
                  /\ e.source = edge.source
                  /\ e.target = edge.target
                  /\ e.source = e.target),
              edge.id)

\* getSelfLoopPath (part_006): the loop is a curve leaving the node at
\* baseAngle degrees whose control point lies loopSize * 1.8 from the centre;
\* the path is given by the centre, loopSize and baseAngle.
getSelfLoopPath(nodeX, nodeY, selfLoopIndex) ==
    [nodeX |-> nodeX, nodeY |-> nodeY,
     loopSize |-> SELF_LOOP_BASE_SIZE + selfLoopIndex * SELF_LOOP_INCREMENT,
     baseAngle |-> -90 + selfLoopIndex * 35]

\* The positions of the geometry's two nodes.
GeomPositions == {<<0, 0>>, <<30, 40>>, <<30, 0>>, <<0, 40>>}

GeomNode(n, position) ==
    [newNode(0, position, NoData, n) EXCEPT !.id = DateNowToString(n)]

\* Edge lists over the two nodes; ids may repeat, as the store allows.
GeomEdgeLists ==
    UNION {[1..len -> {newEdge(DateNowToString(s), DateNowToString(t), NoData, i) :
                          s \in 1..2, t \in 1..2, i \in 1..MaxGeomEdges}] :
           len \in 0..MaxGeomEdges}

InitGeom ==
    /\ \E position \in GeomPositions :
          nodes = <<GeomNode(1, <<0, 0>>), GeomNode(2, position)>>
    /\ edges \in GeomEdgeLists
    /\ now = 1
    /\ selectedNodeId = NULL
    /\ selectedEdgeId = NULL
    /\ hoveredNodeId = NULL
    /\ draggedNodeId = NULL
    /\ isConnecting = FALSE
    /\ connectionSourceId = NULL
    /\ isPanning = FALSE
    /\ zoom = 100
    /\ panOffset = <<0, 0>>
    /\ startPanRef = <<0, 0>>
    /\ panFrom = NoPan
    /\ download = NoFile
    /\ importData = NoImport
    /\ contextMenu = NoMenu
    /\ confirmDialog = NoDialog
    /\ pointerOver = NULL
    /\ geo = [kind |-> "none", out |-> <<>>]
    /\ ev = NoEvent
    /\ pre = [nodes |-> <<>>, edges |-> <<>>]

\* The canvas computes every edge's curve offset (edgePathData).
ComputeOffsets ==
    /\ geo.kind = "none"
    /\ geo' = [kind |-> "offsets",
               out |-> [i \in 1..Len(edges) |-> getEdgeCurveOffset(edges[i], edges)]]
    /\ UNCHANGED <<storeVars, now, uiVars, viewVars, panFrom, fileVars, ev, pre>>

\* edgePathData (part_006): the path data of every edge whose two nodes exist.
edgePathData(ns, es) ==
    LET entry(edge) ==
            LET source == getNodeById(ns, edge.source)
                target == getNodeById(ns, edge.target)
                isSelf == edge.source = edge.target
            IN  IF source = Undefined \/ target = Undefined
                THEN [isNull |-> TRUE]
                ELSE IF isSelf
                THEN [edge |-> edge, isSelf |-> isSelf,
                      pathData |-> getSelfLoopPath(source.x, source.y,
                                                   getSelfLoopIndex(edge, es))]
                ELSE [edge |-> edge, isSelf |-> isSelf,
                      pathData |-> calculateEdgePath(source.x, source.y,
                                                     target.x, target.y,
                                                     getEdgeCurveOffset(edge, es))]
    IN  SelectSeq([i \in 1..Len(es) |-> entry(es[i])],
                  LAMBDA d : d # [isNull |-> TRUE])

\* A JavaScript number: a finite value, or one of NaN, Infinity, -Infinity.
Num(v) == [finite |-> TRUE, v |-> v]
NonFinite == [finite |-> FALSE, v |-> 0]

\* a / b, rounded down: a division by zero gives NaN (0 / 0) or an infinity.
Quotient(a, b) == IF b = 0 THEN NonFinite ELSE Num(a \div b)

\* a + b: NaN and the infinities are absorbing as far as finiteness goes.
Plus(a, b) == IF a.finite /\ b.finite THEN Num(a.v + b.v) ELSE NonFinite

\* a / n for a constant n > 0.
Over(a, n) == IF a.finite THEN Num(a.v \div n) ELSE NonFinite

Abs(n) == IF n < 0 THEN -n ELSE n

\* getEdgePath (src/src/utils/index.ts), as the Canvas component calls it
\* (selfLoopIndex is left to its default, 0): the points of the curve and
\* the label anchor, in tenths; curveOffset in twentieths.  angle is
\* atan2(dy, dx), so cos(angle) = dx / dist and sin(angle) = dy / dist when
\* dist > 0, and atan2(0, 0) = 0 gives cos(angle) = 1, sin(angle) = 0.
\* perpX and perpY are quotients by dist.
getEdgePath(sourceX, sourceY, targetX, targetY, curveOffset, isSelf) ==
    IF isSelf
    THEN [nodeX |-> sourceX, nodeY |-> sourceY,
          loopSize |-> SELF_LOOP_BASE_SIZE + 0 * SELF_LOOP_INCREMENT,
          baseAngle |-> -45 + 0 * 25]
    ELSE LET dx == targetX - sourceX
             dy == targetY - sourceY
             dist == Sqrt(dx * dx + dy * dy)
             cos10R == IF dist = 0 THEN 10 * NODE_RADIUS
                       ELSE (10 * NODE_RADIUS * dx) \div dist
             sin10R == IF dist = 0 THEN 0
                       ELSE (10 * NODE_RADIUS * dy) \div dist
             sx == Num(10 * sourceX + cos10R)
             sy == Num(10 * sourceY + sin10R)
             tx == Num(10 * targetX - cos10R)
             ty == Num(10 * targetY - sin10R)
             midX == Plus(Over(Plus(sx, tx), 2),
                          Quotient((-dy) * 35 * curveOffset, dist))
             midY == Plus(Over(Plus(sy, ty), 2),
                          Quotient(dx * 35 * curveOffset, dist))
             labelX == Over(Plus(Plus(sx, tx), Plus(midX, midX)), 4)
             labelY == Over(Plus(Plus(sy, ty), Plus(midY, midY)), 4)
         IN  [sx |-> sx, sy |-> sy, cx |-> midX, cy |-> midY,
              tx |-> tx, ty |-> ty,
              labelX |-> labelX,
              labelY |-> Plus(labelY, Num(-120 - 6 * Abs(curveOffset))),
              arrowX |-> tx, arrowY |-> ty]

\* edgePathData of the Canvas component (src/src/components/Canvas.tsx).
canvasEdgePathData(ns, es) ==
    LET entry(edge) ==
            LET source == getNodeById(ns, edge.source)
                target == getNodeById(ns, edge.target)
                isSelf == edge.source = edge.target
            IN  IF source = Undefined \/ target = Undefined
                THEN [isNull |-> TRUE]
                ELSE [edge |-> edge, isSelf |-> isSelf,
                      pathData |-> getEdgePath(source.x, source.y,
                                               target.x, target.y,
                                               getEdgeCurveOffset(edge, es),
                                               isSelf)]
    IN  SelectSeq([i \in 1..Len(es) |-> entry(es[i])],
                  LAMBDA d : d # [isNull |-> TRUE])

\* The Canvas component renders: it computes its edgePathData.
ComputeCanvasPaths ==
    /\ geo.kind = "none"
    /\ geo' = [kind |-> "canvasPaths", out |-> canvasEdgePathData(nodes, edges)]
    /\ UNCHANGED <<storeVars, now, uiVars, viewVars, panFrom, fileVars, ev, pre>>

\* The canvas renders: it computes the path data of the edges.
ComputePaths ==
    /\ geo.kind = "none"
    /\ geo' = [kind |-> "paths", out |-> edgePathData(nodes, edges)]
    /\ UNCHANGED <<storeVars, now, uiVars, viewVars, panFrom, fileVars, ev, pre>>

NextGeom ==
    \/ ComputeOffsets
    \/ ComputePaths
    \/ ComputeCanvasPaths

SpecGeom == InitGeom /\ [][NextGeom]_vars

-----------------------------------------------------------------------------
(* SpecPanel: calculatePanelPosition (src/src/utils/index.ts) applied to   *)
(* one node among up to MaxPanelNeighbours others.                         *)

\* The switch on customPosition: the panel's offset from the node's box.
customPanelPosition(customPosition) ==
    LET panelWidth == 200
        panelHeight == 120
        offset == NODE_RADIUS + 20
        diagonalOffset == NODE_RADIUS + 16
    IN  CASE customPosition = "top" ->
                [left |-> (-panelWidth) \div 2 + NODE_RADIUS,
                 top |-> -panelHeight - offset]
          [] customPosition = "top-left" ->
                [left |-> -panelWidth - diagonalOffset + NODE_RADIUS,
                 top |-> -panelHeight - diagonalOffset + NODE_RADIUS]
          [] customPosition = "top-right" ->
                [left |-> NODE_RADIUS * 2 + diagonalOffset - NODE_RADIUS,
                 top |-> -panelHeight - diagonalOffset + NODE_RADIUS]
          [] customPosition = "bottom" ->
                [left |-> (-panelWidth) \div 2 + NODE_RADIUS,
                 top |-> NODE_RADIUS * 2 + 20]
          [] customPosition = "bottom-left" ->
                [left |-> -panelWidth - diagonalOffset + NODE_RADIUS,
                 top |-> NODE_RADIUS * 2 + diagonalOffset - NODE_RADIUS]
          [] customPosition = "bottom-right" ->
                [left |-> NODE_RADIUS * 2 + diagonalOffset - NODE_RADIUS,
                 top |-> NODE_RADIUS * 2 + diagonalOffset - NODE_RADIUS]
          [] customPosition = "left" ->
                [left |-> -panelWidth - 20,
                 top |-> (-panelHeight) \div 2 + NODE_RADIUS]
          [] customPosition = "right" ->
                [left |-> NODE_RADIUS * 2 + 20,
                 top |-> (-panelHeight) \div 2 + NODE_RADIUS]

\* The cross axis counted up to and including 120.
hasNeighborWide(direction, nodeX, nodeY, nodeId, allNodes) ==
    \E i \in 1..Len(allNodes) :
        LET n == allNodes[i]
        IN  /\ n.id # nodeId
            /\ CASE direction = "right" ->
                      n.x > nodeX /\ n.x < nodeX + 250 /\ Abs(n.y - nodeY) <= 120
                 [] direction = "left" ->
                      n.x < nodeX /\ n.x > nodeX - 250 /\ Abs(n.y - nodeY) <= 120
                 [] direction = "top" ->
                      n.y < nodeY /\ n.y > nodeY - 250 /\ Abs(n.x - nodeX) <= 120
                 [] direction = "bottom" ->
                      n.y > nodeY /\ n.y < nodeY + 250 /\ Abs(n.x - nodeX) <= 120

\* hasRightNeighbor, hasLeftNeighbor, hasTopNeighbor, hasBottomNeighbor.
hasNeighbor(direction, nodeX, nodeY, nodeId, allNodes) ==
    LET threshold == 250
    IN  \E i \in 1..Len(allNodes) :
            LET n == allNodes[i]
            IN  /\ n.id # nodeId
                /\ CASE direction = "right" ->
                          /\ n.x > nodeX
                          /\ n.x < nodeX + threshold
                          /\ Abs(n.y - nodeY) < 120
                     [] direction = "left" ->
                          /\ n.x < nodeX
                          /\ n.x > nodeX - threshold
                          /\ Abs(n.y - nodeY) < 120
                     [] direction = "top" ->
                          /\ n.y < nodeY
                          /\ n.y > nodeY - threshold
                          /\ Abs(n.x - nodeX) < 120
                     [] direction = "bottom" ->
                          /\ n.y > nodeY
                          /\ n.y < nodeY + threshold
                          /\ Abs(n.x - nodeX) < 120

\* calculatePanelPosition; customPosition is NULL when absent.
calculatePanelPosition(nodeX, nodeY, nodeId, allNodes, customPosition) ==
    LET panelWidth == 200
        panelHeight == 120
        offset == NODE_RADIUS + 20
    IN  IF customPosition # NULL /\ customPosition # "auto"
        THEN customPanelPosition(customPosition)
        ELSE IF ~hasNeighbor("right", nodeX, nodeY, nodeId, allNodes)
        THEN [left |-> NODE_RADIUS * 2 + 20,
              top |-> (-panelHeight) \div 2 + NODE_RADIUS]
        ELSE IF ~hasNeighbor("left", nodeX, nodeY, nodeId, allNodes)
        THEN [left |-> -panelWidth - 20,
              top |-> (-panelHeight) \div 2 + NODE_RADIUS]
        ELSE IF ~hasNeighbor("bottom", nodeX, nodeY, nodeId, allNodes)
        THEN [left |-> (-panelWidth) \div 2 + NODE_RADIUS,
              top |-> NODE_RADIUS * 2 + 20]
        ELSE IF ~hasNeighbor("top", nodeX, nodeY, nodeId, allNodes)
        THEN [left |-> (-panelWidth) \div 2 + NODE_RADIUS,
              top |-> -panelHeight - offset]
        ELSE [left |-> NODE_RADIUS * 2 + 20,
              top |-> (-panelHeight) \div 2 + NODE_RADIUS]

\* The node the panel belongs to, and where the other nodes may be,
\* relative to it: inside and on the edge of each window, in two windows at
\* once, and on the node itself.
PanelNodeAt == <<10, 20>>
PanelOffsets ==
    <<<<100, 0>>, <<250, 0>>, <<249, 119>>, <<100, 120>>, <<-100, 0>>,
      <<-250, 0>>, <<0, 100>>, <<0, -100>>, <<100, 100>>, <<-100, -100>>,
      <<0, 0>>>>

PanelCustomPositions ==
    {NULL, "auto", "top", "top-left", "top-right", "bottom", "bottom-left",
     "bottom-right", "left", "right"}

\* The node with id "1" first, then one node per chosen offset.
PanelNodes(chosen) ==
    LET at == SelectSeq([i \in 1..Len(PanelOffsets) |-> i], LAMBDA i : i \in chosen)
    IN  <<GeomNode(1, PanelNodeAt)>> \o
        [k \in 1..Len(at) |->
            GeomNode(at[k] + 1, <<PanelNodeAt[1] + PanelOffsets[at[k]][1],
                                  PanelNodeAt[2] + PanelOffsets[at[k]][2]>>)]

InitPanel ==
    /\ \E chosen \in SUBSET (1..Len(PanelOffsets)) :
          /\ Cardinality(chosen) <= MaxPanelNeighbours
          /\ nodes = PanelNodes(chosen)
    /\ edges = <<>>
    /\ now = 1
    /\ selectedNodeId = NULL
    /\ selectedEdgeId = NULL
    /\ hoveredNodeId = NULL
    /\ draggedNodeId = NULL
    /\ isConnecting = FALSE
    /\ connectionSourceId = NULL
    /\ isPanning = FALSE
    /\ zoom = 100
    /\ panOffset = <<0, 0>>
    /\ startPanRef = <<0, 0>>
    /\ panFrom = NoPan
    /\ download = NoFile
    /\ importData = NoImport
    /\ contextMenu = NoMenu
    /\ confirmDialog = NoDialog
    /\ pointerOver = NULL
    /\ geo = [kind |-> "none", out |-> <<>>]
    /\ ev = NoEvent
    /\ pre = [nodes |-> <<>>, edges |-> <<>>]

\* The canvas renders the first node's property panel.
CalculatePanel(customPosition) ==
    /\ geo.kind = "none"
    /\ geo' = [kind |-> "panel",
               out |-> [customPosition |-> customPosition,
                        panelPos |-> calculatePanelPosition(nodes[1].x, nodes[1].y,
                                                            nodes[1].id, nodes,
                                                            customPosition)]]
    /\ UNCHANGED <<storeVars, now, uiVars, viewVars, panFrom, fileVars, ev, pre>>

NextPanel == \E customPosition \in PanelCustomPositions : CalculatePanel(customPosition)

SpecPanel == InitPanel /\ [][NextPanel]_vars


-----------------------------------------------------------------------------
(* Properties of the editor (Spec).                                        *)

\* C1: at most one of selectedNodeId and selectedEdgeId is non-null in every
\* state; after a handler that calls selectNode(id) the node id is selected
\* and selectedEdgeId is null; after one that calls selectEdge(id) the edge
\* id is selected and selectedNodeId is null; after clearSelection (Escape)
\* both are null.
SelectionExclusive ==
    /\ ~(selectedNodeId # NULL /\ selectedEdgeId # NULL)
    /\ ev.op \in {"handleNodeMouseDown", "handleNodeContextMenu", "handleAddNode"}
          => selectedNodeId = ev.id /\ selectedEdgeId = NULL
    /\ ev.op \in {"handleEdgeClick", "handleEdgeContextMenu"}
          => selectedEdgeId = ev.id /\ selectedNodeId = NULL
    /\ ev.op = "keyEscape" => selectedNodeId = NULL /\ selectedEdgeId = NULL

\* A node was pressed while an edge was selected.
SelectionExclusiveWitness ==
    /\ ev.op = "handleNodeMouseDown"
    /\ ev.id2 # NULL
    /\ selectedNodeId = ev.id

\* C2: isConnecting is true if and only if connectionSourceId is non-null.
ConnectingIffSource == isConnecting <=> (connectionSourceId # NULL)

\* A gesture was started and has been ended by a release over a node.
ConnectingIffSourceWitness ==
    /\ ev.op = "nodeMouseUp"
    /\ ev.id2 # NULL
    /\ ~isConnecting

\* C3: a connection gesture from source S released over node N appends
\* exactly one edge, S -> N, and ends the gesture.
ReleaseOverNodeAddsOneEdge ==
    (ev.op = "nodeMouseUp" /\ ev.id2 # NULL) =>
        /\ Len(edges) = Len(pre.edges) + 1
        /\ SubSeq(edges, 1, Len(pre.edges)) = pre.edges
        /\ edges[Len(edges)].source = ev.id2
        /\ edges[Len(edges)].target = ev.id
        /\ ~isConnecting
        /\ connectionSourceId = NULL

\* C4: a connection gesture released, or leaving the canvas, with the
\* pointer over no node changes neither the nodes nor the edges.
AbandonedGestureMutatesNothing ==
    (ev.op \in {"canvasMouseUp", "canvasMouseLeave"} /\ ev.id = NULL /\ ev.id2 # NULL)
        => nodes = pre.nodes /\ edges = pre.edges

\* C13: after Escape is handled the selection is empty, the context menu
\* and the confirm dialog are closed and no connection gesture remains in
\* progress.
EscapeCancelsEverything ==
    ev.op = "keyEscape" =>
        /\ selectedNodeId = NULL
        /\ selectedEdgeId = NULL
        /\ contextMenu = NoMenu
        /\ ~confirmDialog.isOpen
        /\ ~isConnecting
        /\ connectionSourceId = NULL

\* C14 (amended): Delete or Backspace with an edge selected removes that
\* edge, keeps the other edges and the nodes, and empties the selection;
\* with a node selected it opens the confirmation and changes neither the
\* store nor the selection; confirming removes that node and every edge
\* incident to it, keeps the rest, and empties the selection.
DeleteKeyRemovesSelection ==
    /\ (ev.op = "keyDelete" /\ ev.id # NULL) =>
          /\ confirmDialog = [isOpen |-> TRUE, kind |-> "deleteNode", id |-> ev.id]
          /\ nodes = pre.nodes
          /\ edges = pre.edges
          /\ selectedNodeId = ev.id
    /\ (ev.op = "keyDelete" /\ ev.id = NULL /\ ev.id2 # NULL) =>
          /\ nodes = pre.nodes
          /\ \A i \in 1..Len(edges) : edges[i].id # ev.id2
          /\ Len(edges) = Cardinality({i \in 1..Len(pre.edges) : pre.edges[i].id # ev.id2})
          /\ \A i \in 1..Len(edges) : \E j \in 1..Len(pre.edges) : edges[i] = pre.edges[j]
          /\ selectedNodeId = NULL
          /\ selectedEdgeId = NULL
    /\ (ev.op = "confirm" /\ ev.id2 = "deleteNode") =>
          /\ \A i \in 1..Len(nodes) : nodes[i].id # ev.id
          /\ \A i \in 1..Len(edges) : edges[i].source # ev.id /\ edges[i].target # ev.id
          /\ Len(nodes) = Cardinality({i \in 1..Len(pre.nodes) : pre.nodes[i].id # ev.id})
          /\ Len(edges) = Cardinality({i \in 1..Len(pre.edges) :
                              pre.edges[i].source # ev.id /\ pre.edges[i].target # ev.id})
          /\ \A i \in 1..Len(nodes) : \E j \in 1..Len(pre.nodes) : nodes[i] = pre.nodes[j]
          /\ \A i \in 1..Len(edges) : \E j \in 1..Len(pre.edges) : edges[i] = pre.edges[j]
          /\ selectedNodeId = NULL
          /\ selectedEdgeId = NULL

\* The deletion of a selected node that had an edge to another node was
\* confirmed.
DeleteKeyRemovesSelectionWitness ==
    /\ ev.op = "confirm"
    /\ ev.id2 = "deleteNode"
    /\ Len(pre.nodes) = 2
    /\ Len(nodes) = 1
    /\ \E i \in 1..Len(pre.edges) :
          pre.edges[i].source = ev.id /\ pre.edges[i].target = nodes[1].id
    /\ Len(edges) < Len(pre.edges)

\* C14 as stated: once Delete or Backspace is handled with a node selected,
\* that node and its incident edges are gone and the selection is empty.
DeleteKeyRemovesNodeAtOnce ==
    (ev.op = "keyDelete" /\ ev.id # NULL) =>
        /\ \A i \in 1..Len(nodes) : nodes[i].id # ev.id
        /\ \A i \in 1..Len(edges) : edges[i].source # ev.id /\ edges[i].target # ev.id
        /\ selectedNodeId = NULL
        /\ selectedEdgeId = NULL

\* C15: a Delete, Backspace, Escape or Ctrl/Cmd+D key event whose target is
\* an input, textarea or select element changes neither the nodes, the
\* edges, the selection, the context menu nor the dialog.
FieldKeysChangeNothing ==
    [][ev'.op = "keyDownInField" =>
          UNCHANGED <<nodes, edges, selectedNodeId, selectedEdgeId, contextMenu,
                      confirmDialog>>]_vars

\* A key was pressed in a form field while an edge was selected, the context
\* menu was open and the store held a node.
FieldKeysChangeNothingWitness ==
    /\ ev.op = "keyDownInField"
    /\ selectedEdgeId # NULL
    /\ contextMenu # NoMenu
    /\ Len(nodes) > 0

\* The last event was the duplicate shortcut with a node of the store
\* selected.
DuplicateKeyOnSelectedNode ==
    /\ ev.op = "keyDuplicate"
    /\ ev.id # NULL
    /\ getNodeById(pre.nodes, ev.id) # Undefined

\* C24: the duplicate shortcut with node n selected appends exactly one
\* node, at n's position plus (120, 60) and with n's data except for the
\* label, which gets "_copy" appended; afterwards the selected node is that
\* clone and not n.  With no node selected the shortcut changes nothing.
DuplicateKeyClonesAndSelects ==
    /\ DuplicateKeyOnSelectedNode =>
          LET n == getNodeById(pre.nodes, ev.id)
              clone == nodes[Len(nodes)]
          IN  /\ Len(nodes) = Len(pre.nodes) + 1
              /\ SubSeq(nodes, 1, Len(pre.nodes)) = pre.nodes
              /\ clone.x = n.x + 120
              /\ clone.y = n.y + 60
              /\ clone.data = [n.data EXCEPT !.label = Append(n.data.label, "_copy")]
              /\ edges = pre.edges
              /\ selectedNodeId = clone.id
              /\ selectedEdgeId = NULL
              /\ getNodeById(nodes, selectedNodeId) = clone
    /\ (ev.op = "keyDuplicate" /\ ev.id = NULL) =>
          /\ nodes = pre.nodes
          /\ edges = pre.edges
          /\ selectedNodeId = NULL

\* C27: isPanning becomes true only in a press of the primary button on
\* the empty canvas, which also clears the selection; a press on a node, on
\* a connection handle or with another button leaves isPanning as it was;
\* and isPanning is false after every release over the canvas and after
\* the pointer has left it.
PanEnteredOnlyByCanvasPress ==
    [][/\ (~isPanning /\ isPanning') =>
            /\ ev'.op = "handleCanvasMouseDown"
            /\ ev'.id = "0"
            /\ pointerOver = NULL
            /\ selectedNodeId' = NULL
            /\ selectedEdgeId' = NULL
       /\ (\/ ev'.op \in {"handleNodeMouseDown", "handleConnectionStart"}
           \/ ev'.op = "handleCanvasMouseDown" /\ ev'.id # "0") =>
            isPanning' = isPanning
       /\ ev'.op \in {"canvasMouseUp", "canvasMouseLeave"} => ~isPanning']_vars

\* Panning was entered with a node selected, and the selection is gone.
PanEnteredOnlyByCanvasPressWitness ==
    /\ ev.op = "handleCanvasMouseDown"
    /\ ev.id = "0"
    /\ isPanning
    /\ Len(nodes) > 0
    /\ selectedNodeId = NULL
    /\ selectedEdgeId = NULL

\* C29: whatever the user does from the empty schema, the source and the
\* target of every edge are ids of nodes of the store.
EdgesReferToNodes ==
    \A i \in 1..Len(edges) :
        /\ edges[i].source \in NodeIds(nodes)
        /\ edges[i].target \in NodeIds(nodes)

-----------------------------------------------------------------------------
(* Properties of the store (SpecStore).                                    *)

\* The indices of prev whose element Keep accepts, and the k-th of them.
KeptIndices(prev, Keep(_)) == {i \in 1..Len(prev) : Keep(prev[i])}
KthKept(prev, Keep(_), k) ==
    CHOOSE i \in KeptIndices(prev, Keep) :
        Cardinality({j \in KeptIndices(prev, Keep) : j <= i}) = k

\* post is prev with exactly the elements Keep rejects removed.
KeepsExactly(post, prev, Keep(_)) ==
    /\ Len(post) = Cardinality(KeptIndices(prev, Keep))
    /\ \A k \in 1..Len(post) : post[k] = prev[KthKept(prev, Keep, k)]

\* C5: after deleteNode(id) no edge has id as source or target, no node has
\* that id, and every other node and every edge not incident to id is kept,
\* unchanged and in the same relative order.
DeleteNodeCascades ==
    ev.op = "deleteNode" =>
        /\ \A i \in 1..Len(edges) : edges[i].source # ev.id /\ edges[i].target # ev.id
        /\ \A i \in 1..Len(nodes) : nodes[i].id # ev.id
        /\ KeepsExactly(nodes, pre.nodes, LAMBDA n : n.id # ev.id)
        /\ KeepsExactly(edges, pre.edges,
                        LAMBDA e : e.source # ev.id /\ e.target # ev.id)

\* deleteNode removed one of two nodes and an edge from it to the other
\* node, and kept an edge that did not touch it.
DeleteNodeCascadesWitness ==
    /\ ev.op = "deleteNode"
    /\ Len(pre.nodes) = 2
    /\ Len(nodes) = 1
    /\ \E i \in 1..Len(pre.edges) :
          /\ pre.edges[i].source = ev.id
          /\ pre.edges[i].target = nodes[1].id
    /\ Len(pre.edges) = 2
    /\ Len(edges) = 1

\* C12: reverseEdge(id) swaps the source and the target of the edge with
\* that id, keeps its id and data, and leaves every other edge and all nodes
\* unchanged; applying reverseEdge(id) again restores the edges it started
\* from.
ReverseEdgeIsInvolution ==
    ev.op = "reverseEdge" =>
        /\ nodes = pre.nodes
        /\ Len(edges) = Len(pre.edges)
        /\ \A i \in 1..Len(edges) :
              IF pre.edges[i].id = ev.id
              THEN /\ edges[i].source = pre.edges[i].target
                   /\ edges[i].target = pre.edges[i].source
                   /\ edges[i].id = pre.edges[i].id
                   /\ edges[i].data = pre.edges[i].data
              ELSE edges[i] = pre.edges[i]
        /\ reverseEdge(edges, ev.id) = pre.edges

\* reverseEdge turned round an edge between two different nodes and left
\* another edge alone.
ReverseEdgeIsInvolutionWitness ==
    /\ ev.op = "reverseEdge"
    /\ \E i, j \in 1..Len(pre.edges) :
          /\ pre.edges[i].id = ev.id
          /\ pre.edges[i].source # pre.edges[i].target
          /\ edges[i].source = pre.edges[i].target
          /\ pre.edges[j].id # ev.id

\* C6: addEdge with a source or target id that matches no node leaves the
\* edge collection unchanged.
AddEdgeInvalidIdIsNoOp ==
    (/\ ev.op = "addEdge"
     /\ (ev.id \notin NodeIds(pre.nodes) \/ ev.id2 \notin NodeIds(pre.nodes)))
        => edges = pre.edges

\* C7: deleteNode, deleteEdge, reverseEdge, updateNodeData, updateEdgeData,
\* updateNodePosition and duplicateNode, called with an id that matches no
\* record, leave the nodes and the edges unchanged.
StaleIdIsNoOp ==
    (\/ /\ ev.op \in {"deleteNode", "updateNodeData", "updateNodePosition",
                      "duplicateNode"}
        /\ ev.id \notin NodeIds(pre.nodes)
     \/ /\ ev.op \in {"deleteEdge", "reverseEdge", "updateEdgeData"}
        /\ ev.id \notin EdgeIds(pre.edges))
        => nodes = pre.nodes /\ edges = pre.edges

\* C8: node ids are pairwise distinct and edge ids are pairwise distinct.
IdsDistinct ==
    /\ \A i, j \in 1..Len(nodes) : nodes[i].id = nodes[j].id => i = j
    /\ \A i, j \in 1..Len(edges) : edges[i].id = edges[j].id => i = j


\* C25: addEdge(source, target) without a relationship type appends an
\* edge from source to target whose relationshipType is "SELF_REF" when
\* source = target and "RELATES_TO" otherwise.
AddEdgeDefaultType ==
    ev.op = "addEdge" =>
        /\ Len(edges) = Len(pre.edges) + 1
        /\ edges[Len(edges)].source = ev.id
        /\ edges[Len(edges)].target = ev.id2
        /\ edges[Len(edges)].data.relationshipType =
              IF ev.id = ev.id2 THEN "SELF_REF" ELSE "RELATES_TO"

\* An edge between two ids followed by a self-edge, both added by addEdge.
AddEdgeDefaultTypeWitness ==
    /\ ev.op = "addEdge"
    /\ ev.id = ev.id2
    /\ Len(edges) = 2
    /\ edges[1].source # edges[1].target
    /\ edges[1].data.relationshipType = "RELATES_TO"
    /\ edges[2].data.relationshipType = "SELF_REF"

\* C23: every edge of the store has data.labelStyle absent or one of
\* "inline", "top", "bottom", edges added without a labelStyle included.
EdgeLabelStyleValid ==
    \A i \in 1..Len(edges) :
        "labelStyle" \in DOMAIN edges[i].data =>
            edges[i].data.labelStyle \in {"inline", "top", "bottom"}

-----------------------------------------------------------------------------
(* Properties of the geometry (SpecGeom).                                  *)

\* The edges between the same unordered pair of nodes as edge i, in order.
Group(i) ==
    {j \in 1..Len(edges) :
        {edges[j].source, edges[j].target} = {edges[i].source, edges[i].target}}

\* The position of edge i in its group, counted from 0.
IndexInGroup(i) == Cardinality({j \in Group(i) : j < i})

\* The edge list holds no id twice.
EdgeIdsPairwiseDistinct ==
    \A i, j \in 1..Len(edges) : i # j => edges[i].id # edges[j].id

\* C9: with pairwise distinct edge ids, the offsets of a group of N >= 2
\* edges sharing an unordered node pair are (index - (N-1)/2) * 0.8: every
\* offset has its negation in the group, offsets strictly increase with the
\* index in the group and are pairwise distinct; an edge alone in its group
\* has offset 0.  (Offsets are in twentieths.)
CurveOffsetsSymmetric ==
    (geo.kind = "offsets" /\ EdgeIdsPairwiseDistinct) =>
        \A i \in 1..Len(edges) :
            LET n == Cardinality(Group(i))
            IN  /\ n = 1 => geo.out[i] = 0
                /\ n >= 2 =>
                    /\ geo.out[i] * 2 = (2 * IndexInGroup(i) - (n - 1)) * 16
                    /\ \E j \in Group(i) : geo.out[j] = -geo.out[i]
                    /\ \A j \in Group(i) :
                          /\ j < i => geo.out[j] < geo.out[i]
                          /\ j # i => geo.out[j] # geo.out[i]

\* Three edges with distinct ids between the two nodes, in both directions.
CurveOffsetsSymmetricWitness ==
    /\ geo.kind = "offsets"
    /\ EdgeIdsPairwiseDistinct
    /\ Len(edges) = 3
    /\ Group(1) = {1, 2, 3}
    /\ edges[1].source # edges[1].target
    /\ edges[2].source = edges[1].target

\* C10: two distinct edges between the same unordered pair of different
\* nodes, in whatever directions, have different control points.  (Stated
\* for edge lists with distinct ids and nodes at different positions.)
ParallelEdgesOnDistinctCurves ==
    (/\ geo.kind = "paths"
     /\ EdgeIdsPairwiseDistinct
     /\ nodes[1].x # nodes[2].x \/ nodes[1].y # nodes[2].y) =>
        \A i, j \in 1..Len(geo.out) :
            LET a == geo.out[i]
                b == geo.out[j]
            IN  (/\ i # j
                 /\ ~a.isSelf
                 /\ {a.edge.source, a.edge.target} = {b.edge.source, b.edge.target})
                    => <<a.pathData.cx, a.pathData.cy>> # <<b.pathData.cx, b.pathData.cy>>

\* The number of self-edges of the same node before entry i.
SelfLoopsBefore(i) ==
    Cardinality({j \in 1..(i - 1) :
                    /\ geo.out[j].isSelf
                    /\ geo.out[j].edge.source = geo.out[i].edge.source})

AtZeroDistance(d) ==
    /\ ~d.isSelf
    /\ LET source == getNodeById(nodes, d.edge.source)
           target == getNodeById(nodes, d.edge.target)
       IN  source.x = target.x /\ source.y = target.y

\* C20: the path of a non-self edge whose source and target are at the
\* same position is computed without a division by zero and is a defined,
\* degenerate geometry, by calculateEdgePath and by getEdgePath alike:
\* every coordinate is a finite number.
ZeroDistancePathIsDefined ==
    /\ geo.kind = "paths" =>
          \A i \in 1..Len(geo.out) :
              AtZeroDistance(geo.out[i]) =>
                  LET data == geo.out[i].pathData
                  IN  /\ ~data.curved
                      /\ {data.sx, data.cx, data.tx, data.labelX} \subseteq Int
                      /\ {data.sy, data.cy, data.ty, data.labelY} \subseteq Int
    /\ geo.kind = "canvasPaths" =>
          \A i \in 1..Len(geo.out) :
              AtZeroDistance(geo.out[i]) =>
                  LET data == geo.out[i].pathData
                  IN  \A k \in DOMAIN data : data[k].finite

-----------------------------------------------------------------------------
(* Properties of the panel placement (SpecPanel).                          *)

\* Another node lies in the window of the direction: strictly within 250
\* of the first node along the direction, strictly within 120 across it.
Occupied(direction) ==
    \E i \in 2..Len(nodes) :
        LET along == IF direction \in {"right", "left"}
                     THEN nodes[i].x - nodes[1].x ELSE nodes[i].y - nodes[1].y
            across == IF direction \in {"right", "left"}
                      THEN nodes[i].y - nodes[1].y ELSE nodes[i].x - nodes[1].x
            sign == IF direction \in {"right", "bottom"} THEN 1 ELSE -1
        IN  0 < sign * along /\ sign * along < 250 /\ -120 < across /\ across < 120

PanelPriority == <<"right", "left", "bottom", "top">>

\* The first free direction in priority order, or right when none is free.
FirstFreeDirection ==
    IF \A k \in 1..4 : Occupied(PanelPriority[k])
    THEN "right"
    ELSE PanelPriority[CHOOSE k \in 1..4 :
                           /\ ~Occupied(PanelPriority[k])
                           /\ \A j \in 1..(k - 1) : Occupied(PanelPriority[j])]

\* C22: with customPosition absent or "auto", calculatePanelPosition
\* returns the offset of the first of right, left, bottom, top whose window
\* holds no other node, and the right offset when all four hold one.
AutoPanelFirstFreeDirection ==
    (geo.kind = "panel" /\ geo.out.customPosition \in {NULL, "auto"}) =>
        geo.out.panelPos = customPanelPosition(FirstFreeDirection)

\* Right and left are occupied, a further node lies on the edge of the left
\* window, bottom is free, and the panel goes below.
AutoPanelFirstFreeDirectionWitness ==
    /\ geo.kind = "panel"
    /\ geo.out.customPosition = NULL
    /\ Occupied("right")
    /\ Occupied("left")
    /\ ~Occupied("bottom")
    /\ \E i \in 2..Len(nodes) :
          nodes[i].x - nodes[1].x = -250 /\ nodes[i].y = nodes[1].y
    /\ geo.out.panelPos = [left |-> -50, top |-> 120]

\* All four windows hold a node: the panel goes to the right.
AutoPanelAllOccupiedWitness ==
    /\ geo.kind = "panel"
    /\ geo.out.customPosition = "auto"
    /\ \A k \in 1..4 : Occupied(PanelPriority[k])
    /\ geo.out.panelPos = [left |-> 120, top |-> -10]

-----------------------------------------------------------------------------
(* Properties of the viewport (SpecView, SpecCoords).                      *)

\* C11: zoom stays within [ZOOM_MIN, ZOOM_MAX] in every state reachable from
\* zoom 1 by zoomIn, zoomOut, handleWheel (with or without shift) and
\* resetView, however often zoomIn or zoomOut is repeated.
ZoomWithinRange == zoom >= ZOOM_MIN /\ zoom <= ZOOM_MAX

\* zoomIn has just been clamped to (or kept at) ZOOM_MAX.
ZoomWithinRangeWitness == ev.op = "zoomIn" /\ zoom = ZOOM_MAX

\* C18: after startPan at pointer c0 with pan offset p0, a pointer move to c
\* while panning leaves panOffset = p0 + (c - c0), whatever moves came
\* before it; a move when not panning leaves panOffset as it was.
PanFollowsPointer ==
    ev.op = "canvasMouseMove" =>
        IF isPanning
        THEN panOffset = <<panFrom.offset[1] + (ev.id[1] - panFrom.client[1]),
                           panFrom.offset[2] + (ev.id[2] - panFrom.client[2])>>
        ELSE panOffset = ev.id2

\* A pan that started from a non-zero offset has moved the offset again.
PanFollowsPointerWitness ==
    /\ ev.op = "canvasMouseMove"
    /\ isPanning
    /\ panFrom.offset # <<0, 0>>
    /\ ev.id # panFrom.client
    /\ panOffset # panFrom.offset
    /\ panOffset # <<0, 0>>

\* C28: a wheel event with shift held leaves zoom and panOffset.y as they
\* were and moves panOffset.x by exactly -deltaY; a wheel event without
\* shift leaves panOffset as it was (only zoom may change).
ShiftWheelPansHorizontally ==
    [][\A deltaY \in WheelDeltas :
          /\ CanvasWheel(deltaY, TRUE) =>
                /\ zoom' = zoom
                /\ panOffset'[1] = panOffset[1] - deltaY
                /\ panOffset'[2] = panOffset[2]
          /\ CanvasWheel(deltaY, FALSE) => panOffset' = panOffset]_vars

\* The view was panned to the left by a shift-wheel event after a plain
\* wheel event had changed the zoom.
ShiftWheelPansHorizontallyWitness ==
    /\ ev.op = "wheel"
    /\ panOffset = <<-30, 0>>
    /\ zoom # 100

\* C19: screenToCanvas(canvasToScreen(x, y)) = (x, y) for every zoom in
\* [ZOOM_MIN, ZOOM_MAX], pan offset and canvas origin, and screenToCanvas
\* (cx, cy) is ((cx - left - pan.x) / zoom, (cy - top - pan.y) / zoom).
\* (zoom is in hundredths, screen positions in hundredths of a pixel.)
CoordinateRoundTrip ==
    geo.kind = "canvas" =>
        /\ geo.out.back = geo.out.canvas
        /\ geo.out.back.x * zoom
              = geo.out.screen.x - 100 * geo.out.rect.left - 100 * panOffset[1]
        /\ geo.out.back.y * zoom
              = geo.out.screen.y - 100 * geo.out.rect.top - 100 * panOffset[2]

\* A point off the origin went there and back under a zoom other than 1, a
\* pan offset and a canvas origin that are not zero.
CoordinateRoundTripWitness ==
    /\ geo.kind = "canvas"
    /\ zoom = 144
    /\ panOffset # <<0, 0>>
    /\ geo.out.rect.left # 0
    /\ geo.out.canvas.x < 0
    /\ geo.out.canvas.y > 0

-----------------------------------------------------------------------------
(* Properties of dragging and panning (SpecDrag).                          *)

-----------------------------------------------------------------------------
(* Properties of export and import (SpecFile).                             *)

\* The import just confirmed was of the file the last export wrote, and
\* that file holds the schema the store held until the confirmation.
ConfirmedImportOfOwnExport ==
    /\ ev.op = "confirm"
    /\ ev.id2 = "import"
    /\ download # NoFile
    /\ importData = [nodes |-> Member(download, "nodes"),
                     edges |-> Member(download, "edges")]
    /\ Member(download, "nodes") = stringify(pre.nodes, "array")
    /\ Member(download, "edges") = stringify(pre.edges, "array")

\* C16: exporting the schema and importing the exported file, confirmed,
\* leaves node and edge lists equal to the ones exported: same ids,
\* positions, data and order, self-edges included.
ExportImportRoundTrip ==
    ConfirmedImportOfOwnExport => nodes = pre.nodes /\ edges = pre.edges

\* The round trip of three nodes, one at a negative coordinate and one with
\* a property list, and two edges, one a self-edge.
ExportImportRoundTripWitness ==
    /\ ConfirmedImportOfOwnExport
    /\ Len(nodes) = 3
    /\ Len(edges) = 2
    /\ \E i \in 1..Len(edges) : edges[i].source = edges[i].target
    /\ \E i \in 1..Len(nodes) : nodes[i].x < 0 /\ nodes[i].data.properties # <<>>

\* C30: a non-null selectedNodeId names a node of the store and a non-null
\* selectedEdgeId names an edge of the store, also after a confirmed import.
SelectionNamesStoredRecord ==
    /\ selectedNodeId # NULL => selectedNodeId \in NodeIds(nodes)
    /\ selectedEdgeId # NULL => selectedEdgeId \in EdgeIds(edges)

\* The text handed to the last fileImport event.
ImportedText == IF ev.id = "download" THEN download ELSE TextOfFile(ev.id)

\* The text has no nodes array or no edges array (an unparseable text has
\* neither).
LacksArrays(text) ==
    ~(IsArray(Member(text, "nodes")) /\ IsArray(Member(text, "edges")))

\* C17: importing a file without a nodes array or without an edges array,
\* or one that does not parse, changes neither the schema, the viewport nor
\* the selection and opens no confirmation; and cancelling the confirmation
\* of an import changes none of the schema, the viewport and the selection.
MalformedImportRejected ==
    [][/\ (ev'.op = "fileImport" /\ LacksArrays(ImportedText'))
            => UNCHANGED <<nodes, edges, zoom, panOffset, selectedNodeId,
                           selectedEdgeId, confirmDialog>>
       /\ ev'.op = "cancel"
            => UNCHANGED <<nodes, edges, zoom, panOffset, selectedNodeId,
                           selectedEdgeId>>]_vars

=============================================================================
